---- MODULE Spec2Model ----
(***************************************************************************)
(* The asynchronous bulk-import pipeline of the product importer:          *)
(* upload hand-off (app/api/upload.py), the Celery runner                  *)
(* (app/tasks/import_tasks.py) and the CSV processor                       *)
(* (app/services/csv_processor.py), over the upload_jobs, products and     *)
(* webhooks tables, the staged files, the task queue and the Redis         *)
(* progress channel.  Redis pub/sub and the webhook posts keep nothing:    *)
(* what an invocation published, dispatched and posted is logged with the  *)
(* invocation.                                                             *)
(*                                                                         *)
(* Text is modelled as a sequence of one-character strings, so that        *)
(* str.strip() and str.lower() are computed and not assumed.  Python's     *)
(* None is the one-element sequence None, which no text equals.            *)
(***************************************************************************)
EXTENDS Integers, Sequences, FiniteSets, TLC

VARIABLES
    jobs,       \* upload_jobs table: job id -> row (status "absent": no row)
    catalog,    \* products table: a set of rows
    nextId,     \* the products.id sequence
    now,        \* the store's clock: func.now() of the next catalog statement
    staged,     \* job ids whose staged file /tmp/uploads/<job_id>.csv exists
    content,    \* job id -> data rows of the CSV written at upload
    nextJob,    \* number of uploads accepted so far (job ids are fresh)
    queue,      \* job id -> task messages enqueued and not yet delivered
    deliveries, \* job id -> enqueued messages delivered to a worker
    redelivered,\* job id -> deliveries repeated by the task queue
    runs,       \* worker -> the runner invocation it executes (or executed last)
    storeUp,    \* the database answers
    brokerUp,   \* the Redis broker answers
    outages,    \* outages the environment has caused so far
    results,    \* the task results recorded so far: job and state, in order
    streams,    \* observer connection -> its GET /api/upload/{id}/stream
    reply,      \* the last answer of GET /api/upload/{id}
    requests,   \* product request -> its POST or PUT on /api/products
    upload,     \* the POST /api/upload request being handled step by step
    webhooks    \* webhooks table: webhook id -> row (state "none": no row)

vars == <<jobs, catalog, nextId, now, staged, content, nextJob, queue,
          deliveries, redelivered, runs, storeUp, brokerUp, outages, results,
          streams, reply, requests, upload, webhooks>>

----------------------------------------------------------------------------
(* Bounds of the model.                                                    *)

MaxJobs == 2        \* uploads accepted
MaxRuns == 2        \* task messages delivered in all
MaxOutages == 1     \* store or broker outages
MaxStreams == 1     \* observer connections to the live stream
MaxRequests == 2    \* product create and update requests
MaxHooks == 2       \* webhooks registered in all

(* csv_processor.BATCH_SIZE is 1000; the model runs the same loop with a    *)
(* batch of two rows, the smallest size at which a batch can repeat a key. *)
BATCH_SIZE == 2

JobIds == 1..MaxJobs

StreamIds == 1..MaxStreams

ReqIds == 1..MaxRequests

HookIds == 1..MaxHooks

(* The worker pool: two worker processes, so two invocations can overlap.  *)
Workers == {1, 2}

----------------------------------------------------------------------------
(* Text.                                                                   *)

None == <<"None">>

LowerChar(c) == IF c = "A" THEN "a" ELSE IF c = "B" THEN "b" ELSE c

lower(s) == [i \in 1..Len(s) |-> LowerChar(s[i])]

NonSpace(s) == {i \in 1..Len(s) : s[i] # " "}

SetMin(S) == CHOOSE x \in S : \A y \in S : x <= y

SetMax(S) == CHOOSE x \in S : \A y \in S : x >= y

strip(s) ==
    IF NonSpace(s) = {} THEN <<>>
    ELSE SubSeq(s, SetMin(NonSpace(s)), SetMax(NonSpace(s)))

(* Python truthiness of a csv field: None and "" are false.                *)
Truthy(v) == v # None /\ v # <<>>

----------------------------------------------------------------------------
(* CSV rows.  A data row read by csv.DictReader under the header           *)
(* sku,name,description; a field the line does not have reads as None.     *)

Row(s, n, d) == [sku |-> s, name |-> n, description |-> d]

(* process_csv_content's product_data for a row that passed validation.    *)
AsDescription(d) == IF strip(d) = <<>> THEN None ELSE strip(d)

ProductData(row) ==
    [sku |-> lower(strip(row.sku)),
     name |-> strip(row.name),
     description |-> AsDescription(row.description),
     active |-> TRUE]

RowSkipped(row) == ~Truthy(row.sku) \/ ~Truthy(row.name)

IsValidRow(row) == ~RowSkipped(row)

(* Faulty variant: only the rows that pass the validation are counted.     *)
count_valid_rows(rows) == Len(SelectSeq(rows, IsValidRow))

(* count_csv_rows: every data row the reader yields.                       *)
count_csv_rows(rows) == Len(rows)

(* The row loop of process_csv_content from row pos on, up to the next     *)
(* upsert: "full" (the batch reached BATCH_SIZE), "end" (the reader is      *)
(* exhausted) or "error" (row["description"] is None: None.strip raises).   *)
RECURSIVE Scan(_, _, _, _)
Scan(rows, pos, batch, total) ==
    IF pos > Len(rows)
    THEN [kind |-> "end", pos |-> pos, batch |-> batch, total |-> total]
    ELSE IF RowSkipped(rows[pos])
    THEN Scan(rows, pos + 1, batch, total)
    ELSE IF rows[pos].description = None
    THEN [kind |-> "error", pos |-> pos, batch |-> batch, total |-> total]
    ELSE IF Len(batch) + 1 >= BATCH_SIZE
    THEN [kind |-> "full", pos |-> pos + 1,
          batch |-> Append(batch, ProductData(rows[pos])), total |-> total + 1]
    ELSE Scan(rows, pos + 1, Append(batch, ProductData(rows[pos])), total + 1)

----------------------------------------------------------------------------
(* The upsert engine: csv_processor.upsert_batch.                          *)

BatchKeys(batch) == {batch[i].sku : i \in 1..Len(batch)}

(* Faulty variant: the first row of a key is kept.                         *)
FirstOccurrence(batch, k) ==
    batch[SetMin({i \in 1..Len(batch) : batch[i].sku = k})]

(* unique_products[product["sku"]] = product: a later row replaces an      *)
(* earlier one with the same key.                                          *)
LastOccurrence(batch, k) ==
    batch[SetMax({i \in 1..Len(batch) : batch[i].sku = k})]

FirstIndexes(batch) ==
    {i \in 1..Len(batch) : \A j \in 1..(i - 1) : batch[j].sku # batch[i].sku}

RECURSIVE Ascending(_)
Ascending(S) ==
    IF S = {} THEN <<>>
    ELSE <<SetMin(S)>> \o Ascending(S \ {SetMin(S)})

(* list(unique_products.values()): keys in order of first occurrence, each *)
(* with the value of its last occurrence.                                  *)
deduped_products(batch) ==
    [n \in 1..Cardinality(FirstIndexes(batch)) |->
        LastOccurrence(batch, batch[Ascending(FirstIndexes(batch))[n]].sku)]

(* db.query(Product).filter(func.lower(Product.sku).in_(existing_skus))    *)
(*   .count()                                                              *)
existing_count(cat, batch) ==
    Cardinality({p \in cat : lower(p.sku) \in BatchKeys(batch)})

(* The rows of the statement that meet no row with the same sku: inserted. *)
NewRows(cat, batch) ==
    SelectSeq(deduped_products(batch), LAMBDA r : \A p \in cat : p.sku # r.sku)

(* Inserting a row whose sku differs from every stored sku but whose       *)
(* LOWER(sku) equals a stored one violates idx_products_sku_lower.         *)
IntegrityError(cat, batch) ==
    \E i \in 1..Len(NewRows(cat, batch)) :
        \E p \in cat : lower(p.sku) = lower(NewRows(cat, batch)[i].sku)

(* Faulty variant: the conflicting row takes every column of the new row.  *)
OnConflictUpdate_all(p, batch, t) ==
    IF p.sku \in BatchKeys(batch)
    THEN [p EXCEPT !.name = LastOccurrence(batch, p.sku).name,
                   !.description = LastOccurrence(batch, p.sku).description,
                   !.active = LastOccurrence(batch, p.sku).active,
                   !.updated_at = t]
    ELSE p

(* ON CONFLICT (sku) DO UPDATE SET name, description, updated_at = now().   *)
OnConflictUpdate(p, batch, t) ==
    IF p.sku \in BatchKeys(batch)
    THEN [p EXCEPT !.name = LastOccurrence(batch, p.sku).name,
                   !.description = LastOccurrence(batch, p.sku).description,
                   !.updated_at = t]
    ELSE p

(* A row inserted at time t: created_at and updated_at take their server   *)
(* default now().                                                          *)
Inserted(id, data, t) ==
    [id |-> id, sku |-> data.sku, name |-> data.name,
     description |-> data.description, active |-> data.active,
     created_at |-> t, updated_at |-> t]

(* The products table after INSERT ... ON CONFLICT DO UPDATE commits at     *)
(* time t.                                                                 *)
UpsertStatement(cat, nid, batch, t) ==
    {OnConflictUpdate(p, batch, t) : p \in cat}
    \cup {Inserted(nid + i - 1, NewRows(cat, batch)[i], t) :
          i \in 1..Len(NewRows(cat, batch))}

(* Faulty variant: created is taken from the batch as it was passed.       *)
UpsertCreated_raw(batch, existing) == Len(batch) - existing

(* upsert_batch's return value, from the count taken before the statement. *)
UpsertCreated(batch, existing) == Len(deduped_products(batch)) - existing

UpsertUpdated(batch, existing) == existing

----------------------------------------------------------------------------
(* Job rows (app/models/upload_job.py) and runner invocations.             *)

NoText == <<>>

AbsentJob ==
    [status |-> "absent", total_rows |-> 0, processed_rows |-> 0,
     created_rows |-> 0, updated_rows |-> 0, error_message |-> NoText]

(* UploadJob(id, filename, status): the column defaults.                    *)
NewJob(st) == [AbsentJob EXCEPT !.status = st]

JobExists(j) == jobs[j].status # "absent"

Terminal(st) == st \in {"completed", "failed"}

(* One invocation of process_csv_import(job_id, file_path): its program    *)
(* counter and its locals; sent and emitted log what it published and      *)
(* dispatched, posts the webhook posts of its dispatches, calls the        *)
(* batches it passed to upsert_batch, checkpoints                          *)
(* the update_progress commits it made, committed the rows of the batches  *)
(* whose statement committed; at is the step that raised e; seen           *)
(* is the number of task results recorded when it started; cleanup_error   *)
(* tells that removing the staged file failed and was logged.              *)
NewRun(j) ==
    [job |-> j, pc |-> "claim", e |-> NoText, raised |-> FALSE,
     csv |-> <<>>, pos |-> 1, batch |-> <<>>, full |-> FALSE,
     total |-> 0, created |-> 0, updated |-> 0, existing |-> 0,
     sent |-> <<>>, emitted |-> <<>>, posts |-> <<>>, calls |-> <<>>,
     checkpoints |-> 0,
     committed |-> 0, at |-> "", seen |-> 0, cleanup_error |-> FALSE]

(* A worker that has not run anything yet.                                 *)
IdleRun == [NewRun(0) EXCEPT !.pc = "idle"]

Active(w) == runs[w].pc \notin {"idle", "done"}

RECURSIVE Sum(_, _)
Sum(f, S) ==
    IF S = {} THEN 0 ELSE f[SetMin(S)] + Sum(f, S \ {SetMin(S)})

(* Texts of the exceptions the runner can meet: str(e).                    *)
ErrStore == <<"s", "t", "o", "r", "e">>
ErrNoJob == <<"n", "o", "j", "o", "b">>
ErrNoFile == <<"n", "o", "f", "i", "l", "e">>
ErrParse == <<"p", "a", "r", "s", "e">>

(* publish_progress's message (error is present only when given).         *)
Snapshot(st, processed, total, created, updated, err) ==
    [status |-> st, processed |-> processed, total |-> total,
     created |-> created, updated |-> updated, error |-> err]

(* One observer connection to stream_progress: the HTTP status answered,   *)
(* whether its pubsub is subscribed to upload:<job>, the messages Redis    *)
(* has handed to the subscription (got) and those not yet read (inbox),    *)
(* the events written to the observer (out), and why the stream ended.     *)
NoStream ==
    [job |-> 0, pc |-> "none", code |-> 0, subscribed |-> FALSE,
     got |-> <<>>, inbox |-> <<>>, out |-> <<>>, why |-> ""]

NoReply == [job |-> 0, code |-> 0]

(* One request to create_product or update_product: its body (sku, name;   *)
(* None is a field the body does not carry), the id of its path, the row   *)
(* the session loaded, the HTTP status answered, the product returned and  *)
(* the events it dispatched.                                               *)
NoProduct ==
    [id |-> 0, sku |-> None, name |-> None, description |-> None,
     active |-> FALSE, created_at |-> 0, updated_at |-> 0]

NoRequest ==
    [op |-> "none", pc |-> "none", id |-> 0, sku |-> None, name |-> None,
     loaded |-> NoProduct, code |-> 0, body |-> NoProduct, emitted |-> <<>>,
     posts |-> <<>>]

(* One row of the webhooks table; state tells a row that was never         *)
(* created ("none") from a stored and from a deleted one: ids come from a  *)
(* sequence and are not given out again.                                   *)
NoWebhook ==
    [state |-> "none", url |-> "", event_type |-> "", enabled |-> FALSE]

----------------------------------------------------------------------------
(* The files an upload may carry.                                          *)

RowA == Row(<<"A">>, <<"x">>, <<>>)
RowA2 == Row(<<"a", " ">>, <<"y">>, <<"d">>)
RowB == Row(<<"b">>, <<"x">>, <<>>)
RowNoName == Row(<<"b">>, <<>>, <<"d">>)
RowShort == Row(<<"b">>, <<"x">>, None)
RowBlankName == Row(<<"b">>, <<" ">>, <<>>)

RawRows == {RowA, RowA2, RowB, RowNoName, RowShort, RowBlankName}

MaxRows == 3

FilesOver(rows, n) == UNION {[1..k -> rows] : k \in 0..n}

(* Every file of at most MaxRows data rows.                                *)
Files == FilesOver(RawRows, MaxRows)

(* Files of three batches: two full ones and a last row.                   *)
LongFiles == [1..(2 * BATCH_SIZE + 1) -> {RowA, RowB}]

(* Files for the runs that overlap: one of two batches with a skipped row  *)
(* and a repeated key, and one whose last row fails after a committed      *)
(* batch.                                                                  *)
SampleFiles ==
    {<<RowA, RowNoName, RowB, RowA2>>, <<RowA, RowB, RowShort>>}

ValidRows(rows) == SelectSeq(rows, IsValidRow)

----------------------------------------------------------------------------
(* Initial state: no job, no staged file, an empty queue; the catalog is   *)
(* empty or holds one product stored earlier (keys are stored lower-case). *)

OldProduct ==
    [id |-> 1, sku |-> <<"a">>, name |-> <<"o">>, description |-> <<"o">>,
     active |-> FALSE, created_at |-> 0, updated_at |-> 0]

Init ==
    /\ jobs = [j \in JobIds |-> AbsentJob]
    /\ catalog \in {{}, {OldProduct}}
    /\ nextId = 2
    /\ now = 1
    /\ staged = {}
    /\ content = [j \in JobIds |-> <<>>]
    /\ nextJob = 0
    /\ queue = [j \in JobIds |-> 0]
    /\ deliveries = [j \in JobIds |-> 0]
    /\ redelivered = [j \in JobIds |-> 0]
    /\ runs = [w \in Workers |-> IdleRun]
    /\ storeUp = TRUE
    /\ brokerUp = TRUE
    /\ outages = 0
    /\ results = <<>>
    /\ streams = [s \in StreamIds |-> NoStream]
    /\ reply = NoReply
    /\ requests = [q \in ReqIds |-> NoRequest]
    /\ upload = [pc |-> "none", job |-> 0, file |-> <<>>, code |-> 0]
    /\ webhooks = [h \in HookIds |-> NoWebhook]

----------------------------------------------------------------------------
(* upload_csv: the job row is created under a fresh id, the file is staged  *)
(* as /tmp/uploads/<job_id>.csv, the row is marked uploaded and the task   *)
(* is enqueued.                                                            *)

(* Faulty variant: the invocation is enqueued twice.                       *)
Enqueue_twice(q, j) == [q EXCEPT ![j] = @ + 2]

(* process_csv_import.delay(job_id, str(temp_file_path)): one message.     *)
Enqueue(q, j) == [q EXCEPT ![j] = @ + 1]

UploadFile(file) ==
    /\ nextJob < MaxJobs
    /\ storeUp
    /\ nextJob' = nextJob + 1
    /\ jobs' = [jobs EXCEPT ![nextJob + 1] = NewJob("uploaded")]
    /\ staged' = staged \cup {nextJob + 1}
    /\ content' = [content EXCEPT ![nextJob + 1] = file]
    /\ queue' = Enqueue(queue, nextJob + 1)
    /\ UNCHANGED <<catalog, nextId, now, deliveries, redelivered, runs,
                   storeUp, brokerUp, outages, results, streams, reply,
                   requests, upload, webhooks>>

Upload == \E file \in SampleFiles : UploadFile(file)

(* The first upload carries the sample file that completes, the later      *)
(* ones the sample file that fails.                                        *)
UploadInTurn ==
    UploadFile(IF nextJob = 0 THEN <<RowA, RowNoName, RowB, RowA2>>
               ELSE <<RowA, RowB, RowShort>>)

(* One upload of any short file or of a file of three batches, and later   *)
(* uploads of an identical file.                                           *)
UploadAny ==
    nextJob = 0 /\ \E file \in Files \cup LongFiles : UploadFile(file)

UploadAgain == nextJob >= 1 /\ UploadFile(content[1])

UploadLong == nextJob = 0 /\ \E file \in LongFiles : UploadFile(file)

(* The task queue hands process_csv_import(job_id, file_path) to a free    *)
(* worker.                                                                 *)
FreeWorkers == {w \in Workers : ~Active(w)}

Delivered == Sum(deliveries, JobIds) + Sum(redelivered, JobIds)

CanStart == Delivered < MaxRuns /\ FreeWorkers # {}

Started(j) ==
    [runs EXCEPT ![SetMin(FreeWorkers)] =
        [NewRun(j) EXCEPT !.seen = Len(results)]]

DeliverJob(j) ==
    /\ queue[j] > 0
    /\ CanStart
    /\ runs' = Started(j)
    /\ queue' = [queue EXCEPT ![j] = @ - 1]
    /\ deliveries' = [deliveries EXCEPT ![j] = @ + 1]
    /\ UNCHANGED <<jobs, catalog, nextId, now, staged, content, nextJob,
                   redelivered, storeUp, brokerUp, outages, results,
                   streams, reply, requests, upload, webhooks>>

Deliver == \E j \in JobIds : DeliverJob(j)

(* At-least-once delivery: a message already delivered is delivered again. *)
RedeliverJob(j) ==
    /\ deliveries[j] >= 1
    /\ CanStart
    /\ runs' = Started(j)
    /\ redelivered' = [redelivered EXCEPT ![j] = @ + 1]
    /\ UNCHANGED <<jobs, catalog, nextId, now, staged, content, nextJob,
                   queue, deliveries, storeUp, brokerUp, outages, results,
                   streams, reply, requests, upload, webhooks>>

Redeliver == \E j \in JobIds : RedeliverJob(j)

(* Single delivery, one invocation at a time.                              *)
DeliverAlone == (\A w \in Workers : ~Active(w)) /\ Deliver

----------------------------------------------------------------------------
(* upload_csv step by step, with the failures of its hand-off: the job row *)
(* is created as uploading (lines 150-155); inside the try block the file  *)
(* is written, the row is marked uploaded and the task is enqueued; the    *)
(* except block deletes the row, removes the file and answers 500.         *)

NoUpload == [pc |-> "none", job |-> 0, file |-> <<>>, code |-> 0]

(* Lines 150-155.  A store error here is raised before the try block.      *)
UploadCsv ==
    /\ upload.pc \in {"none", "done"}
    /\ nextJob < MaxJobs
    /\ \E file \in SampleFiles :
           IF ~storeUp
           THEN /\ upload' = [NoUpload EXCEPT !.pc = "done", !.code = 500]
                /\ UNCHANGED <<jobs, nextJob>>
           ELSE /\ upload' = [pc |-> "stage", job |-> nextJob + 1,
                              file |-> file, code |-> 0]
                /\ jobs' = [jobs EXCEPT ![nextJob + 1] = NewJob("uploading")]
                /\ nextJob' = nextJob + 1
    /\ UNCHANGED <<catalog, nextId, now, staged, content, queue, deliveries,
                   redelivered, runs, storeUp, brokerUp, outages, results,
                   streams, reply, requests, webhooks>>

(* Lines 160-172: the file is written to /tmp/uploads/<job_id>.csv.        *)
StageFile ==
    /\ upload.pc = "stage"
    /\ upload' = [upload EXCEPT !.pc = "mark"]
    /\ staged' = staged \cup {upload.job}
    /\ content' = [content EXCEPT ![upload.job] = upload.file]
    /\ UNCHANGED <<jobs, catalog, nextId, now, nextJob, queue, deliveries,
                   redelivered, runs, storeUp, brokerUp, outages, results,
                   streams, reply, requests, webhooks>>

(* open() or buffer.write raises; the file may exist by then.              *)
StageFails ==
    /\ upload.pc = "stage"
    /\ outages < MaxOutages
    /\ outages' = outages + 1
    /\ upload' = [upload EXCEPT !.pc = "failed"]
    /\ \E partial \in BOOLEAN :
           staged' = IF partial THEN staged \cup {upload.job} ELSE staged
    /\ UNCHANGED <<jobs, catalog, nextId, now, content, nextJob, queue,
                   deliveries, redelivered, runs, storeUp, brokerUp,
                   results, streams, reply, requests, webhooks>>

(* Lines 175-176.                                                          *)
MarkUploaded ==
    /\ upload.pc = "mark"
    /\ IF ~storeUp
       THEN /\ upload' = [upload EXCEPT !.pc = "failed"]
            /\ jobs' = jobs
       ELSE /\ upload' = [upload EXCEPT !.pc = "enqueue"]
            /\ jobs' = [jobs EXCEPT ![upload.job].status = "uploaded"]
    /\ UNCHANGED <<catalog, nextId, now, staged, content, nextJob, queue,
                   deliveries, redelivered, runs, storeUp, brokerUp,
                   outages, results, streams, reply, requests, webhooks>>

(* Lines 181-190: process_csv_import.delay, then the 200 answer.           *)
EnqueueTask ==
    /\ upload.pc = "enqueue"
    /\ IF ~brokerUp
       THEN /\ upload' = [upload EXCEPT !.pc = "failed"]
            /\ queue' = queue
       ELSE /\ upload' = [upload EXCEPT !.pc = "done", !.code = 200]
            /\ queue' = Enqueue(queue, upload.job)
    /\ UNCHANGED <<jobs, catalog, nextId, now, staged, content, nextJob,
                   deliveries, redelivered, runs, storeUp, brokerUp,
                   outages, results, streams, reply, requests, webhooks>>

(* Faulty variant: the row is kept and marked failed.                      *)
CleanedUp_kept(js, j) == [js EXCEPT ![j].status = "failed"]

(* Lines 196-197: db.delete(job); db.commit().                             *)
CleanedUp(js, j) == [js EXCEPT ![j] = AbsentJob]

(* Lines 192-206, the except block.  Its commit is not guarded: when the   *)
(* store does not answer it raises, and the file is not reached.           *)
HandoffFailed ==
    /\ upload.pc = "failed"
    /\ upload' = [upload EXCEPT !.pc = "done", !.code = 500]
    /\ IF ~storeUp
       THEN UNCHANGED <<jobs, staged>>
       ELSE /\ jobs' = CleanedUp(jobs, upload.job)
            /\ staged' = staged \ {upload.job}
    /\ UNCHANGED <<catalog, nextId, now, content, nextJob, queue,
                   deliveries, redelivered, runs, storeUp, brokerUp,
                   outages, results, streams, reply, requests, webhooks>>

HandoffStep ==
    \/ UploadCsv \/ StageFile \/ StageFails \/ MarkUploaded \/ EnqueueTask
    \/ HandoffFailed

----------------------------------------------------------------------------
(* The environment: the store and the broker fail and recover.             *)

StoreDown ==
    /\ storeUp /\ outages < MaxOutages
    /\ storeUp' = FALSE /\ outages' = outages + 1
    /\ UNCHANGED <<jobs, catalog, nextId, now, staged, content, nextJob,
                   queue, deliveries, redelivered, runs, brokerUp, results,
                   streams, reply, requests, upload, webhooks>>

StoreBack ==
    /\ ~storeUp
    /\ storeUp' = TRUE
    /\ UNCHANGED <<jobs, catalog, nextId, now, staged, content, nextJob,
                   queue, deliveries, redelivered, runs, brokerUp, outages,
                   results, streams, reply, requests, upload, webhooks>>

BrokerDown ==
    /\ brokerUp /\ outages < MaxOutages
    /\ brokerUp' = FALSE /\ outages' = outages + 1
    /\ UNCHANGED <<jobs, catalog, nextId, now, staged, content, nextJob,
                   queue, deliveries, redelivered, runs, storeUp, results,
                   streams, reply, requests, upload, webhooks>>

BrokerBack ==
    /\ ~brokerUp
    /\ brokerUp' = TRUE
    /\ UNCHANGED <<jobs, catalog, nextId, now, staged, content, nextJob,
                   queue, deliveries, redelivered, runs, storeUp, outages,
                   results, streams, reply, requests, upload, webhooks>>

----------------------------------------------------------------------------
(* The webhooks table and webhook_service.trigger_webhooks.                *)

(* The bodies of POST /api/webhooks: event_type is any text, and enabled   *)
(* defaults to true.                                                       *)
WebhookCreate ==
    [url : {"u"},
     event_type : {"import.started"},
     enabled : BOOLEAN]

(* The bodies of PUT /api/webhooks/{id}; a field the body leaves out is    *)
(* None in the handler and is modelled as a field the record lacks.        *)
WebhookUpdate ==
    {[enabled |-> FALSE], [url |-> "v", event_type |-> "import.failed"]}

Provided(body, field) == field \in DOMAIN body

FreeHooks == {h \in HookIds : webhooks[h].state = "none"}

(* create_webhook, lines 38-45.  A handler reached while the store is down *)
(* raises on its first statement and changes nothing.                      *)
CreateWebhook ==
    /\ storeUp
    /\ FreeHooks # {}
    /\ \E body \in WebhookCreate :
           webhooks' = [webhooks EXCEPT ![SetMin(FreeHooks)] =
               [state |-> "stored", url |-> body.url,
                event_type |-> body.event_type, enabled |-> body.enabled]]
    /\ UNCHANGED <<jobs, catalog, nextId, now, staged, content, nextJob,
                   queue, deliveries, redelivered, runs, storeUp, brokerUp,
                   outages, results, streams, reply, requests, upload>>

(* update_webhook, lines 76-91: only the fields provided are written; an   *)
(* id without a row is answered 404.                                       *)
UpdatedWebhook(row, body) ==
    [row EXCEPT
        !.url = IF Provided(body, "url") THEN body.url ELSE @,
        !.event_type =
            IF Provided(body, "event_type") THEN body.event_type ELSE @,
        !.enabled = IF Provided(body, "enabled") THEN body.enabled ELSE @]

UpdateWebhook ==
    /\ storeUp
    /\ \E h \in HookIds, body \in WebhookUpdate :
           /\ webhooks[h].state = "stored"
           /\ webhooks' = [webhooks EXCEPT ![h] = UpdatedWebhook(@, body)]
    /\ UNCHANGED <<jobs, catalog, nextId, now, staged, content, nextJob,
                   queue, deliveries, redelivered, runs, storeUp, brokerUp,
                   outages, results, streams, reply, requests, upload>>

(* delete_webhook, lines 102-109.                                          *)
DeleteWebhook ==
    /\ storeUp
    /\ \E h \in HookIds :
           /\ webhooks[h].state = "stored"
           /\ webhooks' = [webhooks EXCEPT ![h].state = "deleted"]
    /\ UNCHANGED <<jobs, catalog, nextId, now, staged, content, nextJob,
                   queue, deliveries, redelivered, runs, storeUp, brokerUp,
                   outages, results, streams, reply, requests, upload>>

WebhookStep == CreateWebhook \/ UpdateWebhook \/ DeleteWebhook

(* Faulty variant: the query does not filter on the event type.            *)
Targets_enabled(hooks, type) ==
    {h \in HookIds : hooks[h].state = "stored" /\ hooks[h].enabled}

(* Lines 35-39: the enabled webhooks registered for this event type.       *)
Targets(hooks, type) ==
    {h \in HookIds : /\ hooks[h].state = "stored"
                     /\ hooks[h].event_type = type
                     /\ hooks[h].enabled}

(* _send_webhook: one client.post(url, json=payload); an exception (a      *)
(* timeout, a refused connection) is printed and nothing else happens.     *)
(* emission numbers the trigger_webhooks call within its invocation or     *)
(* request; ok is false for a post that raised.                            *)
send_webhook(hooks, h, ev, n, lost) ==
    [hook |-> h, url |-> hooks[h].url, payload |-> ev, emission |-> n,
     ok |-> h \notin lost]

(* Lines 45-48: one _send_webhook per webhook found, gathered with         *)
(* return_exceptions=True.                                                 *)
RECURSIVE Gather(_, _, _, _, _)
Gather(hooks, T, ev, n, lost) ==
    IF T = {} THEN <<>>
    ELSE <<send_webhook(hooks, SetMin(T), ev, n, lost)>>
             \o Gather(hooks, T \ {SetMin(T)}, ev, n, lost)

trigger_webhooks(hooks, ev, n, lost) ==
    Gather(hooks, Targets(hooks, ev.type), ev, n, lost)

(* The posts that may raise in one trigger_webhooks call.                  *)
Losses(type) == SUBSET Targets(webhooks, type)

----------------------------------------------------------------------------
(* process_csv_import, one step per store round trip, publish or dispatch. *)
(* A store call made while the store is down raises; an exception inside   *)
(* the try block enters the except block with str(e) captured.             *)

Raise(run, err) ==
    [run EXCEPT !.pc = "mark_failed", !.e = err, !.at = run.pc]

(* trigger_webhooks' payloads.                                             *)
Event(type, err, total, created, updated) ==
    [type |-> type, error |-> err, total_rows |-> total,
     created |-> created, updated |-> updated]

(* trigger_webhooks first queries the registered webhooks; neither it nor  *)
(* its callers guard that query, so it raises while the store is down.     *)
Emitted(run, ev, lost) ==
    [run EXCEPT
        !.emitted = Append(@, ev),
        !.posts = @ \o trigger_webhooks(webhooks, ev, Len(run.emitted) + 1,
                                        lost)]

(* Faulty variant: a broker error escapes publish_progress.                *)
Published_unguarded(run, snap) ==
    IF brokerUp THEN [run EXCEPT !.sent = Append(@, snap)]
    ELSE [run EXCEPT !.raised = TRUE, !.e = ErrStore]

(* redis_client.publish inside publish_progress' try block: a broker error *)
(* is caught and printed, and nothing is published.                        *)
Published(run, snap) ==
    IF brokerUp THEN [run EXCEPT !.sent = Append(@, snap)] ELSE run

(* Faulty variant: every subscriber hears every job's messages.            *)
Fanout_all(ss, j, snap) ==
    [s \in StreamIds |->
        IF ss[s].subscribed
        THEN [ss[s] EXCEPT !.got = Append(@, snap), !.inbox = Append(@, snap)]
        ELSE ss[s]]

(* Redis hands a published message to every pubsub subscribed to the       *)
(* topic upload:<job>; a message nobody is subscribed to is dropped.       *)
Fanout(ss, j, snap) ==
    [s \in StreamIds |->
        IF ss[s].subscribed /\ ss[s].job = j
        THEN [ss[s] EXCEPT !.got = Append(@, snap), !.inbox = Append(@, snap)]
        ELSE ss[s]]

Heard(ss, j, snap) == IF brokerUp THEN Fanout(ss, j, snap) ELSE ss

(* Faulty variant: the transition is not persisted.                        *)
ClaimedRow_kept(job) == job

(* Lines 41-49: look the job up and persist status processing.             *)
ClaimedRow(job) == [job EXCEPT !.status = "processing"]

Claim(r) ==
    /\ runs[r].pc = "claim"
    /\ IF ~storeUp
       THEN /\ runs' = [runs EXCEPT ![r] = Raise(@, ErrStore)]
            /\ jobs' = jobs
       ELSE IF ~JobExists(runs[r].job)
       THEN /\ runs' = [runs EXCEPT ![r] = Raise(@, ErrNoJob)]
            /\ jobs' = jobs
       ELSE /\ runs' = [runs EXCEPT ![r].pc = "evt_started"]
            /\ jobs' = [jobs EXCEPT ![runs[r].job] = ClaimedRow(@)]
    /\ UNCHANGED <<catalog, nextId, now, staged, content, nextJob, queue,
                   deliveries, redelivered, storeUp, brokerUp, outages,
                   results, streams, reply, requests, upload, webhooks>>

(* Lines 54-63: import.started.                                            *)
EvtStarted(r) ==
    /\ runs[r].pc = "evt_started"
    /\ \E lost \in Losses("import.started") :
           runs' = [runs EXCEPT ![r] =
               IF ~storeUp THEN Raise(@, ErrStore)
               ELSE [Emitted(@, Event("import.started", NoText, 0, 0, 0),
                             lost)
                        EXCEPT !.pc = "read"]]
    /\ UNCHANGED <<jobs, catalog, nextId, now, staged, content, nextJob,
                   queue, deliveries, redelivered, storeUp, brokerUp,
                   outages, results, streams, reply, requests, upload,
                   webhooks>>

(* Lines 67-86: read the staged file, count its rows, persist total_rows.  *)
ReadFile(r) ==
    /\ runs[r].pc = "read"
    /\ IF runs[r].job \notin staged
       THEN /\ runs' = [runs EXCEPT ![r] = Raise(@, ErrNoFile)]
            /\ jobs' = jobs
       ELSE IF ~storeUp
       THEN /\ runs' = [runs EXCEPT ![r] = Raise(@, ErrStore)]
            /\ jobs' = jobs
       ELSE /\ runs' = [runs EXCEPT ![r].pc = "proc",
                                    ![r].csv = content[runs[r].job]]
            /\ jobs' = [jobs EXCEPT ![runs[r].job].total_rows =
                            count_csv_rows(content[runs[r].job])]
    /\ UNCHANGED <<catalog, nextId, now, staged, content, nextJob, queue,
                   deliveries, redelivered, storeUp, brokerUp, outages,
                   results, streams, reply, requests, upload, webhooks>>

(* Faulty variant: the rows left at the end are upserted even when there   *)
(* are none.                                                               *)
NextBatch_unguarded(run) ==
    LET s == Scan(run.csv, run.pos, <<>>, run.total) IN
    IF s.kind = "error" THEN Raise(run, ErrParse)
    ELSE [run EXCEPT !.pc = "count", !.full = (s.kind = "full"),
                     !.pos = s.pos, !.batch = s.batch, !.total = s.total,
                     !.calls = Append(@, s.batch)]

(* The row loop up to the next upsert_batch call (or the end).             *)
NextBatch(run) ==
    LET s == Scan(run.csv, run.pos, <<>>, run.total) IN
    IF s.kind = "error" THEN Raise(run, ErrParse)
    ELSE IF s.kind = "full" \/ s.batch # <<>>
    THEN [run EXCEPT !.pc = "count", !.full = (s.kind = "full"),
                     !.pos = s.pos, !.batch = s.batch, !.total = s.total,
                     !.calls = Append(@, s.batch)]
    ELSE [run EXCEPT !.pc = "publish_completed", !.pos = s.pos,
                     !.batch = <<>>, !.total = s.total]

(* process_csv_content lines 41-64: look the job up, start the row loop.   *)
Proc(r) ==
    /\ runs[r].pc = "proc"
    /\ runs' = [runs EXCEPT ![r] =
           IF ~storeUp THEN Raise(@, ErrStore)
           ELSE IF ~JobExists(runs[r].job) THEN Raise(@, ErrNoJob)
           ELSE NextBatch(@)]
    /\ UNCHANGED <<jobs, catalog, nextId, now, staged, content, nextJob,
                   queue, deliveries, redelivered, storeUp, brokerUp,
                   outages, results, streams, reply, requests, upload,
                   webhooks>>

(* upsert_batch lines 126-132: count the batch's keys already stored.      *)
CountExisting(r) ==
    /\ runs[r].pc = "count"
    /\ runs' = [runs EXCEPT ![r] =
           IF ~storeUp THEN Raise(@, ErrStore)
           ELSE [@ EXCEPT !.pc = "exec",
                          !.existing = existing_count(catalog, runs[r].batch)]]
    /\ UNCHANGED <<jobs, catalog, nextId, now, staged, content, nextJob,
                   queue, deliveries, redelivered, storeUp, brokerUp,
                   outages, results, streams, reply, requests, upload,
                   webhooks>>

(* upsert_batch lines 135-152 and the caller's created += , updated += .   *)
(* Faulty variant: the counts of the batch replace the running totals.     *)
AfterUpsert_assign(run) ==
    [run EXCEPT !.pc = "progress",
                !.committed = @ + Len(run.batch),
                !.created = UpsertCreated(run.batch, run.existing),
                !.updated = UpsertUpdated(run.batch, run.existing)]

AfterUpsert(run) ==
    [run EXCEPT !.pc = "progress",
                !.committed = @ + Len(run.batch),
                !.created = @ + UpsertCreated(run.batch, run.existing),
                !.updated = @ + UpsertUpdated(run.batch, run.existing)]

(* Faulty variant: a failed statement is taken for a committed one.        *)
UpsertFailed_counted(run) ==
    [AfterUpsert(run) EXCEPT !.committed = run.committed]

(* db.execute or db.commit raises: the exception leaves upsert_batch and   *)
(* process_csv_content.                                                    *)
UpsertFailed(run) == Raise(run, ErrStore)

ExecUpsert(r) ==
    /\ runs[r].pc = "exec"
    /\ IF ~storeUp \/ IntegrityError(catalog, runs[r].batch)
       THEN /\ runs' = [runs EXCEPT ![r] = UpsertFailed(@)]
            /\ UNCHANGED <<catalog, nextId, now>>
       ELSE /\ runs' = [runs EXCEPT ![r] = AfterUpsert(@)]
            /\ catalog' = UpsertStatement(catalog, nextId, runs[r].batch, now)
            /\ nextId' = nextId + Len(NewRows(catalog, runs[r].batch))
            /\ now' = now + 1
    /\ UNCHANGED <<jobs, staged, content, nextJob, queue, deliveries,
                   redelivered, storeUp, brokerUp, outages, results,
                   streams, reply, requests, upload, webhooks>>

(* Faulty variant: the running total is added to the stored count.         *)
ProgressRow_additive(job, run) ==
    [job EXCEPT !.processed_rows = @ + run.total,
                !.created_rows = run.created,
                !.updated_rows = run.updated]

(* update_progress: the running totals are written to the job row.         *)
ProgressRow(job, run) ==
    [job EXCEPT !.processed_rows = run.total,
                !.created_rows = run.created,
                !.updated_rows = run.updated]

UpdateProgress(r) ==
    /\ runs[r].pc = "progress"
    /\ IF ~storeUp
       THEN /\ runs' = [runs EXCEPT ![r] = Raise(@, ErrStore)]
            /\ jobs' = jobs
       ELSE /\ runs' = [runs EXCEPT ![r].pc =
                   IF runs[r].full THEN "publish" ELSE "publish_completed",
                                    ![r].checkpoints = @ + 1]
            /\ jobs' = IF JobExists(runs[r].job)
                       THEN [jobs EXCEPT ![runs[r].job] =
                                ProgressRow(@, runs[r])]
                       ELSE jobs
    /\ UNCHANGED <<catalog, nextId, now, staged, content, nextJob, queue,
                   deliveries, redelivered, storeUp, brokerUp, outages,
                   results, streams, reply, requests, upload, webhooks>>

(* Lines 73-76 of process_csv_content, after a full batch: the snapshot    *)
(* carries job.total_rows, reloaded from the store after the commit; then  *)
(* the row loop goes on.                                                   *)
ProgressSnapshot(run, job) ==
    Snapshot("processing", run.total, job.total_rows, run.created,
             run.updated, NoText)

PublishProgress(r) ==
    /\ runs[r].pc = "publish"
    /\ runs' = [runs EXCEPT ![r] =
           IF ~storeUp THEN Raise(@, ErrStore)
           ELSE NextBatch(Published(@,
                    ProgressSnapshot(runs[r], jobs[runs[r].job])))]
    /\ streams' =
           IF ~storeUp THEN streams
           ELSE Heard(streams, runs[r].job,
                      ProgressSnapshot(runs[r], jobs[runs[r].job]))
    /\ UNCHANGED <<jobs, catalog, nextId, now, staged, content, nextJob,
                   queue, deliveries, redelivered, storeUp, brokerUp,
                   outages, results, reply, requests, upload, webhooks>>

(* Line 90 of process_csv_content: the final snapshot.                     *)
FinalSnapshot(run) ==
    Snapshot("completed", run.total, run.total, run.created, run.updated,
             NoText)

PublishCompleted(r) ==
    /\ runs[r].pc = "publish_completed"
    /\ runs' = [runs EXCEPT ![r] =
           [Published(@, FinalSnapshot(runs[r])) EXCEPT !.pc = "complete"]]
    /\ streams' = Heard(streams, runs[r].job, FinalSnapshot(runs[r]))
    /\ UNCHANGED <<jobs, catalog, nextId, now, staged, content, nextJob,
                   queue, deliveries, redelivered, storeUp, brokerUp,
                   outages, results, reply, requests, upload, webhooks>>

(* Lines 96-98: persist status completed.                                  *)
CompletedRow(job) == [job EXCEPT !.status = "completed"]

Complete(r) ==
    /\ runs[r].pc = "complete"
    /\ IF ~storeUp
       THEN /\ runs' = [runs EXCEPT ![r] = Raise(@, ErrStore)]
            /\ jobs' = jobs
       ELSE IF ~JobExists(runs[r].job)
       THEN /\ runs' = [runs EXCEPT ![r] = Raise(@, ErrNoJob)]
            /\ jobs' = jobs
       ELSE /\ runs' = [runs EXCEPT ![r].pc = "evt_completed"]
            /\ jobs' = [jobs EXCEPT ![runs[r].job] = CompletedRow(@)]
    /\ UNCHANGED <<catalog, nextId, now, staged, content, nextJob, queue,
                   deliveries, redelivered, storeUp, brokerUp, outages,
                   results, streams, reply, requests, upload, webhooks>>

(* Lines 103-129: import.completed with the row's counters, then return.   *)
CompletedEvent(job) ==
    Event("import.completed", NoText, job.total_rows, job.created_rows,
          job.updated_rows)

EvtCompleted(r) ==
    /\ runs[r].pc = "evt_completed"
    /\ \E lost \in Losses("import.completed") :
           runs' = [runs EXCEPT ![r] =
               IF ~storeUp THEN Raise(@, ErrStore)
               ELSE [Emitted(@, CompletedEvent(jobs[runs[r].job]), lost)
                        EXCEPT !.pc = "cleanup"]]
    /\ UNCHANGED <<jobs, catalog, nextId, now, staged, content, nextJob,
                   queue, deliveries, redelivered, storeUp, brokerUp,
                   outages, results, streams, reply, requests, upload,
                   webhooks>>

(* Lines 136-140, in the except block: persist failed and str(e).  A store *)
(* error here leaves the except block with nothing written; the exception  *)
(* propagates.                                                             *)
FailedRow(job, err) == [job EXCEPT !.status = "failed", !.error_message = err]

MarkFailed(r) ==
    /\ runs[r].pc = "mark_failed"
    /\ IF ~storeUp
       THEN /\ runs' = [runs EXCEPT ![r].pc = "cleanup", ![r].raised = TRUE]
            /\ jobs' = jobs
       ELSE /\ runs' = [runs EXCEPT ![r].pc = "publish_failed"]
            /\ jobs' = IF JobExists(runs[r].job)
                       THEN [jobs EXCEPT ![runs[r].job] =
                                FailedRow(@, runs[r].e)]
                       ELSE jobs
    /\ UNCHANGED <<catalog, nextId, now, staged, content, nextJob, queue,
                   deliveries, redelivered, storeUp, brokerUp, outages,
                   results, streams, reply, requests, upload, webhooks>>

(* Line 146: publish_progress(job_id, 0, 0, 0, 0, "failed", str(e)).       *)
FailedSnapshot(run) == Snapshot("failed", 0, 0, 0, 0, run.e)

PublishFailed(r) ==
    /\ runs[r].pc = "publish_failed"
    /\ runs' = [runs EXCEPT ![r] =
           [Published(@, FailedSnapshot(runs[r])) EXCEPT !.pc = "evt_failed"]]
    /\ streams' = Heard(streams, runs[r].job, FailedSnapshot(runs[r]))
    /\ UNCHANGED <<jobs, catalog, nextId, now, staged, content, nextJob,
                   queue, deliveries, redelivered, storeUp, brokerUp,
                   outages, results, reply, requests, upload, webhooks>>

(* Lines 151-164: import.failed, then raise.                               *)
EvtFailed(r) ==
    /\ runs[r].pc = "evt_failed"
    /\ \E lost \in Losses("import.failed") :
           runs' = [runs EXCEPT ![r] =
               [(IF storeUp
                 THEN Emitted(@, Event("import.failed", runs[r].e, 0, 0, 0),
                              lost)
                 ELSE @)
                EXCEPT !.pc = "cleanup", !.raised = TRUE]]
    /\ UNCHANGED <<jobs, catalog, nextId, now, staged, content, nextJob,
                   queue, deliveries, redelivered, storeUp, brokerUp,
                   outages, results, streams, reply, requests, upload,
                   webhooks>>

(* Lines 166-179, the finally block: the staged file is removed.  The      *)
(* task then ends, and the result backend records how.                     *)
TaskResult(run) ==
    [job |-> run.job, state |-> IF run.raised THEN "FAILURE" ELSE "SUCCESS"]

(* Faulty variant: the file is removed only when the import succeeded.     *)
Removed_on_success(files, run) ==
    IF run.raised THEN files ELSE files \ {run.job}

(* Lines 173-174: os.remove(file_path) when the file exists.               *)
Removed(files, run) == files \ {run.job}

Cleanup(r) ==
    /\ runs[r].pc = "cleanup"
    /\ runs' = [runs EXCEPT ![r].pc = "done"]
    /\ staged' = Removed(staged, runs[r])
    /\ results' = Append(results, TaskResult(runs[r]))
    /\ UNCHANGED <<jobs, catalog, nextId, now, content, nextJob, queue,
                   deliveries, redelivered, storeUp, brokerUp, outages,
                   streams, reply, requests, upload, webhooks>>

----------------------------------------------------------------------------
(* The status and live-stream endpoints of app/api/upload.py.              *)

(* Faulty variant: the lookup's result is not tested.                      *)
StatusCode_unchecked(j) == IF ~storeUp THEN 500 ELSE 200

(* get_upload_status: 404 when the job has no row, else the row.           *)
StatusCode(j) == IF ~storeUp THEN 500 ELSE IF JobExists(j) THEN 200 ELSE 404

GetUploadStatus ==
    /\ \E j \in JobIds : reply' = [job |-> j, code |-> StatusCode(j)]
    /\ UNCHANGED <<jobs, catalog, nextId, now, staged, content, nextJob,
                   queue, deliveries, redelivered, runs, storeUp, brokerUp,
                   outages, results, streams, requests, upload, webhooks>>

FreeStreams == {s \in StreamIds : streams[s].pc = "none"}

(* stream_progress lines 58-61 and 94-101: the job is looked up; without a *)
(* row the request is answered 404 and no generator is made.               *)
Accepted200(st, j) == [st EXCEPT !.job = j, !.pc = "open", !.code = 200]

Refused(st, j, code) == [st EXCEPT !.job = j, !.pc = "refused", !.code = code]

StreamProgress ==
    /\ FreeStreams # {}
    /\ \E j \in JobIds :
           streams' = [streams EXCEPT ![SetMin(FreeStreams)] =
               IF StatusCode(j) = 200 THEN Accepted200(@, j)
               ELSE Refused(@, j, StatusCode(j))]
    /\ UNCHANGED <<jobs, catalog, nextId, now, staged, content, nextJob,
                   queue, deliveries, redelivered, runs, storeUp, brokerUp,
                   outages, results, reply, requests, upload, webhooks>>

(* The end of event_generator: the finally block unsubscribes.             *)
Ended(st, why) ==
    [st EXCEPT !.pc = "ended", !.subscribed = FALSE, !.why = why]

(* event_generator lines 65-67: connect and subscribe to upload:<job_id>,  *)
(* outside the try block.                                                  *)
Subscribe(s) ==
    /\ streams[s].pc = "open"
    /\ streams' = [streams EXCEPT ![s] =
           IF brokerUp THEN [@ EXCEPT !.pc = "listening", !.subscribed = TRUE]
           ELSE Ended(@, "error")]
    /\ UNCHANGED <<jobs, catalog, nextId, now, staged, content, nextJob,
                   queue, deliveries, redelivered, runs, storeUp, brokerUp,
                   outages, results, reply, requests, upload, webhooks>>

(* Faulty variant: the loop goes on after a completed or failed message.   *)
Relayed_on(st) ==
    [st EXCEPT !.out = Append(@, Head(st.inbox)), !.inbox = Tail(@)]

(* event_generator lines 70-83, a turn of the loop that reads a message:   *)
(* it is written to the observer, and a completed or failed one ends the   *)
(* stream.                                                                 *)
Relayed(st) ==
    IF Terminal(Head(st.inbox).status)
    THEN Ended([st EXCEPT !.out = Append(@, Head(st.inbox)),
                          !.inbox = Tail(@)], "terminal")
    ELSE [st EXCEPT !.out = Append(@, Head(st.inbox)), !.inbox = Tail(@)]

(* Lines 85-92: get_message raised.  The handler's logger is not defined   *)
(* in this module, so the error event is not written; the finally block    *)
(* runs and the stream ends.                                               *)
GetMessage(s) ==
    /\ streams[s].pc = "listening"
    /\ ~brokerUp \/ streams[s].inbox # <<>>
    /\ streams' = [streams EXCEPT ![s] =
           IF ~brokerUp THEN Ended(@, "error") ELSE Relayed(@)]
    /\ UNCHANGED <<jobs, catalog, nextId, now, staged, content, nextJob,
                   queue, deliveries, redelivered, runs, storeUp, brokerUp,
                   outages, results, reply, requests, upload, webhooks>>

(* The observer goes away: the generator is closed where it is suspended   *)
(* and its finally block runs.                                             *)
Disconnect(s) ==
    /\ streams[s].pc = "listening"
    /\ streams' = [streams EXCEPT ![s] = Ended(@, "disconnect")]
    /\ UNCHANGED <<jobs, catalog, nextId, now, staged, content, nextJob,
                   queue, deliveries, redelivered, runs, storeUp, brokerUp,
                   outages, results, reply, requests, upload, webhooks>>

GatewayStep ==
    \/ GetUploadStatus \/ StreamProgress
    \/ \E s \in StreamIds : Subscribe(s) \/ GetMessage(s) \/ Disconnect(s)

----------------------------------------------------------------------------
(* create_product and update_product of app/api/products.py, one step per  *)
(* store round trip; the dispatch of product.created or product.updated    *)
(* follows the commit in the same step.                                    *)

(* The bodies the requests carry.                                          *)
CreateSkus == {<<"A">>, <<"A", " ">>, <<"b">>}

UpdateBodies ==
    {[sku |-> None, name |-> <<"m">>], [sku |-> <<"A">>, name |-> None],
     [sku |-> <<"b">>, name |-> <<"m">>]}

UpdateIds == {1, 2}

FreeRequests == {q \in ReqIds : requests[q].pc = "none"}

Answered(req, code) == [req EXCEPT !.pc = "done", !.code = code]

(* db.query(Product).filter(func.lower(Product.sku) == sku.lower())        *)
(*   .first(), with .filter(Product.id != product_id) in update_product    *)
(* (no row has id 0).                                                      *)
existing(cat, sku, id) ==
    \E p \in cat : lower(p.sku) = lower(sku) /\ p.id # id

(* Faulty variant: the table has no unique constraint.                     *)
UniqueViolation_none(cat, sku, id) == FALSE

(* The unique constraint on sku and the unique index                       *)
(* idx_products_sku_lower on LOWER(sku), against the rows other than id.   *)
UniqueViolation(cat, sku, id) ==
    \E p \in cat : p.id # id /\ (p.sku = sku \/ lower(p.sku) = lower(sku))

(* Faulty variant: the key is stored as the request spelled it.            *)
CreatedData_verbatim(req) ==
    [sku |-> req.sku, name |-> req.name, description |-> None,
     active |-> TRUE]

(* Product(sku=product.sku.strip().lower(), name=..., description=...,     *)
(* active=...).                                                            *)
CreatedData(req) ==
    [sku |-> lower(strip(req.sku)), name |-> req.name, description |-> None,
     active |-> TRUE]

(* Faulty variant: the duplicate is looked up by its exact spelling.       *)
CreateRequest_exact(req, cat) ==
    IF ~storeUp THEN Answered(req, 500)
    ELSE IF \E p \in cat : p.sku = req.sku THEN Answered(req, 400)
    ELSE [req EXCEPT !.pc = "insert"]

(* Lines 87-97: the duplicate check; 400 when a row has the key.           *)
CreateRequest(req, cat) ==
    IF ~storeUp THEN Answered(req, 500)
    ELSE IF existing(cat, req.sku, 0) THEN Answered(req, 400)
    ELSE [req EXCEPT !.pc = "insert"]

CreateProduct ==
    /\ FreeRequests # {}
    /\ \E sku \in CreateSkus :
           requests' = [requests EXCEPT ![SetMin(FreeRequests)] =
               CreateRequest([@ EXCEPT !.op = "create", !.sku = sku,
                                       !.name = <<"n">>], catalog)]
    /\ UNCHANGED <<jobs, catalog, nextId, now, staged, content, nextJob,
                   queue, deliveries, redelivered, runs, storeUp, brokerUp,
                   outages, results, streams, reply, upload, webhooks>>

(* Lines 99-125: insert, commit, refresh, dispatch product.created, return *)
(* the row with 201.  A constraint violation is an unhandled               *)
(* IntegrityError: 500.                                                    *)
ProductEvent(type, row) == [type |-> type, data |-> row]

Dispatched(req, code, row, type, lost) ==
    [Answered(req, code) EXCEPT
        !.body = row,
        !.emitted = <<type>>,
        !.posts = trigger_webhooks(webhooks, ProductEvent(type, row), 1,
                                   lost)]

CreateInsert(q) ==
    /\ requests[q].op = "create" /\ requests[q].pc = "insert"
    /\ IF ~storeUp
          \/ UniqueViolation(catalog, CreatedData(requests[q]).sku, 0)
       THEN /\ requests' = [requests EXCEPT ![q] = Answered(@, 500)]
            /\ UNCHANGED <<catalog, nextId, now>>
       ELSE /\ catalog' = catalog \cup
                   {Inserted(nextId, CreatedData(requests[q]), now)}
            /\ nextId' = nextId + 1
            /\ now' = now + 1
            /\ \E lost \in Losses("product.created") :
                   requests' = [requests EXCEPT ![q] =
                       Dispatched(@, 201,
                                  Inserted(nextId, CreatedData(requests[q]),
                                           now),
                                  "product.created", lost)]
    /\ UNCHANGED <<jobs, staged, content, nextJob, queue, deliveries,
                   redelivered, runs, storeUp, brokerUp, outages, results,
                   streams, reply, upload, webhooks>>

ProductById(cat, id) == CHOOSE p \in cat : p.id = id

(* Lines 142-145: the row is loaded by id; 404 without one.                *)
UpdateRequest(req, cat) ==
    IF ~storeUp THEN Answered(req, 500)
    ELSE IF \A p \in cat : p.id # req.id THEN Answered(req, 404)
    ELSE [req EXCEPT !.loaded = ProductById(cat, req.id),
                     !.pc = IF req.sku # None THEN "conflict" ELSE "commit"]

UpdateProduct ==
    /\ FreeRequests # {}
    /\ \E id \in UpdateIds, body \in UpdateBodies :
           requests' = [requests EXCEPT ![SetMin(FreeRequests)] =
               UpdateRequest([@ EXCEPT !.op = "update", !.id = id,
                                       !.sku = body.sku, !.name = body.name],
                             catalog)]
    /\ UNCHANGED <<jobs, catalog, nextId, now, staged, content, nextJob,
                   queue, deliveries, redelivered, runs, storeUp, brokerUp,
                   outages, results, streams, reply, upload, webhooks>>

(* Lines 148-161: the new key must not be another row's key; 400 if it is. *)
UpdateConflict(q) ==
    /\ requests[q].op = "update" /\ requests[q].pc = "conflict"
    /\ requests' = [requests EXCEPT ![q] =
           IF ~storeUp THEN Answered(@, 500)
           ELSE IF existing(catalog, requests[q].sku, requests[q].id)
           THEN Answered(@, 400)
           ELSE [@ EXCEPT !.pc = "commit"]]
    /\ UNCHANGED <<jobs, catalog, nextId, now, staged, content, nextJob,
                   queue, deliveries, redelivered, runs, storeUp, brokerUp,
                   outages, results, streams, reply, upload, webhooks>>

(* Lines 161-167: the attributes the request sets on the loaded row.       *)
NewSku(req) == IF req.sku # None THEN lower(req.sku) ELSE req.loaded.sku

NewName(req) == IF req.name # None THEN req.name ELSE req.loaded.name

(* The session writes the attributes whose value differs from the loaded   *)
(* one, and updated_at with them.                                          *)
Dirty(req) ==
    NewSku(req) # req.loaded.sku \/ NewName(req) # req.loaded.name

UpdatedRow(p, req, t) ==
    [p EXCEPT !.sku = IF NewSku(req) # req.loaded.sku THEN NewSku(req) ELSE @,
              !.name = IF NewName(req) # req.loaded.name
                       THEN NewName(req) ELSE @,
              !.updated_at = t]

(* Lines 171-190: commit, refresh, dispatch product.updated, return the    *)
(* row.                                                                    *)
UpdateCommit(q) ==
    /\ requests[q].op = "update" /\ requests[q].pc = "commit"
    /\ IF ~storeUp
          \/ (NewSku(requests[q]) # requests[q].loaded.sku
                 /\ UniqueViolation(catalog, NewSku(requests[q]),
                                    requests[q].id))
       THEN /\ requests' = [requests EXCEPT ![q] = Answered(@, 500)]
            /\ UNCHANGED <<catalog, now>>
       ELSE IF ~Dirty(requests[q])
       THEN /\ \E lost \in Losses("product.updated") :
                   requests' = [requests EXCEPT ![q] =
                       Dispatched(@, 200,
                                  ProductById(catalog, requests[q].id),
                                  "product.updated", lost)]
            /\ UNCHANGED <<catalog, now>>
       ELSE /\ catalog' =
                   {IF p.id = requests[q].id
                    THEN UpdatedRow(p, requests[q], now) ELSE p :
                    p \in catalog}
            /\ now' = now + 1
            /\ \E lost \in Losses("product.updated") :
                   requests' = [requests EXCEPT ![q] =
                       Dispatched(@, 200,
                                  UpdatedRow(ProductById(catalog,
                                                         requests[q].id),
                                             requests[q], now),
                                  "product.updated", lost)]
    /\ UNCHANGED <<jobs, nextId, staged, content, nextJob, queue,
                   deliveries, redelivered, runs, storeUp, brokerUp,
                   outages, results, streams, reply, upload, webhooks>>

ProductStep ==
    \/ CreateProduct \/ UpdateProduct
    \/ \E q \in ReqIds : CreateInsert(q) \/ UpdateConflict(q) \/ UpdateCommit(q)

(* Lines 178-179: os.remove raises; the error is logged and the file       *)
(* stays.                                                                  *)
CleanupFails(r) ==
    /\ runs[r].pc = "cleanup"
    /\ runs[r].job \in staged
    /\ runs' = [runs EXCEPT ![r].pc = "done", ![r].cleanup_error = TRUE]
    /\ results' = Append(results, TaskResult(runs[r]))
    /\ UNCHANGED <<jobs, catalog, nextId, now, staged, content, nextJob,
                   queue, deliveries, redelivered, storeUp, brokerUp,
                   outages, streams, reply, requests, upload, webhooks>>

RunnerStep(r) ==
    \/ Claim(r) \/ EvtStarted(r) \/ ReadFile(r) \/ Proc(r)
    \/ CountExisting(r) \/ ExecUpsert(r) \/ UpdateProgress(r)
    \/ PublishProgress(r) \/ PublishCompleted(r) \/ Complete(r)
    \/ EvtCompleted(r) \/ MarkFailed(r) \/ PublishFailed(r)
    \/ EvtFailed(r) \/ Cleanup(r)

(* Uploads, deliveries and redeliveries; invocations overlap.              *)
Next ==
    \/ Upload \/ Deliver \/ Redeliver
    \/ \E w \in Workers : RunnerStep(w)

Spec == Init /\ [][Next]_vars

(* A file is imported and an identical file is imported again, one         *)
(* invocation at a time, each message delivered once.                      *)
NextImport ==
    \/ UploadAny \/ UploadAgain \/ DeliverAlone
    \/ \E w \in Workers : RunnerStep(w)

SpecImport == Init /\ [][NextImport]_vars

(* One import of three batches while the store and the broker fail and     *)
(* recover and the staged file may resist removal.                         *)
NextOutage ==
    \/ UploadLong \/ DeliverAlone
    \/ StoreDown \/ StoreBack \/ BrokerDown \/ BrokerBack
    \/ \E w \in Workers : RunnerStep(w) \/ CleanupFails(w)

SpecOutage == Init /\ [][NextOutage]_vars

(* One import with observers on its progress topic and readers of its      *)
(* status, while the broker fails and recovers.                            *)
UploadOne == nextJob = 0 /\ Upload

NextStream ==
    \/ UploadOne \/ DeliverAlone \/ BrokerDown \/ BrokerBack
    \/ GatewayStep
    \/ \E w \in Workers : RunnerStep(w)

SpecStream == Init /\ [][NextStream]_vars

(* One import of any file while the broker fails and recovers.             *)
NextBroker ==
    \/ UploadAny \/ DeliverAlone \/ BrokerDown \/ BrokerBack
    \/ \E w \in Workers : RunnerStep(w)

SpecBroker == Init /\ [][NextBroker]_vars

(* Uploads whose hand-off can fail, and the imports of those that were     *)
(* handed off, while the store and the broker fail and recover.            *)
NextHandoff ==
    \/ HandoffStep \/ DeliverAlone
    \/ StoreDown \/ StoreBack \/ BrokerDown \/ BrokerBack
    \/ \E w \in Workers : RunnerStep(w)

SpecHandoff == Init /\ [][NextHandoff]_vars

(* Imports of different jobs that overlap, each delivered once, with a     *)
(* subscription to the progress topic of one of them.                      *)
NextJobs ==
    \/ UploadInTurn \/ Deliver
    \/ StreamProgress
    \/ \E s \in StreamIds : Subscribe(s)
    \/ \E w \in Workers : RunnerStep(w)

SpecJobs == Init /\ [][NextJobs]_vars

(* Product requests while one import runs.                                 *)
NextCatalog ==
    \/ UploadOne \/ DeliverAlone
    \/ ProductStep
    \/ \E w \in Workers : RunnerStep(w)

SpecCatalog == Init /\ [][NextCatalog]_vars

(* One import while webhooks are registered, changed and deleted.          *)
NextHooks ==
    \/ UploadOne \/ DeliverAlone
    \/ WebhookStep
    \/ \E w \in Workers : RunnerStep(w)

SpecHooks == Init /\ [][NextHooks]_vars

----------------------------------------------------------------------------
(* Properties.                                                             *)

NoDecrease(old, new) ==
    /\ new.processed_rows >= old.processed_rows
    /\ new.created_rows >= old.created_rows
    /\ new.updated_rows >= old.updated_rows

Finished(w) == runs[w].pc = "done"

(* C1: once a job row is completed or failed, no step changes it (status,  *)
(* counters, error_message), whatever invocations follow.                  *)
C1_TerminalIsFinal ==
    [][\A j \in JobIds : Terminal(jobs[j].status) => jobs'[j] = jobs[j]]_vars

(* C2: in every job row, created_rows + updated_rows = processed_rows,     *)
(* after every checkpoint and at completion, also for files that repeat a  *)
(* key inside one batch.                                                   *)
C2_CountersAddUp ==
    \A j \in JobIds :
        jobs[j].created_rows + jobs[j].updated_rows = jobs[j].processed_rows

(* C3: a job's processed_rows never exceeds its total_rows, the count of   *)
(* data rows of its file, valid or not.                                    *)
C3_ProcessedAtMostTotal ==
    \A j \in JobIds :
        JobExists(j) => jobs[j].processed_rows <= jobs[j].total_rows

(* A job completed with some rows processed and some skipped.              *)
C3_Witness ==
    \E j \in JobIds :
        /\ jobs[j].status = "completed"
        /\ jobs[j].processed_rows > 0
        /\ jobs[j].processed_rows < jobs[j].total_rows
        /\ jobs[j].total_rows = count_csv_rows(content[j])

(* C4 as stated: in no step do a job's processed_rows, created_rows or     *)
(* updated_rows decrease, also when the runner is invoked again.           *)
C4_NeverDecrease ==
    [][\A j \in JobIds : NoDecrease(jobs[j], jobs'[j])]_vars

(* C4 amended: while the job's invocation has been delivered only once,    *)
(* its processed_rows, created_rows and updated_rows never decrease.       *)
C4_NeverDecreaseOneDelivery ==
    [][\A j \in JobIds :
          redelivered'[j] = 0 => NoDecrease(jobs[j], jobs'[j])]_vars

(* A job delivered once whose second checkpoint has been written.          *)
C4_Witness ==
    \E j \in JobIds :
        /\ redelivered[j] = 0
        /\ jobs[j].processed_rows > BATCH_SIZE
        /\ jobs[j].updated_rows > 0

(* The invocation on worker w was the second for its job and started after *)
(* the first had returned normally.                                        *)
SecondAfterSuccess(w) ==
    /\ deliveries[runs[w].job] + redelivered[runs[w].job] = 2
    /\ \E i \in 1..runs[w].seen :
           results[i] = [job |-> runs[w].job, state |-> "SUCCESS"]

(* C5: a second invocation that follows a successful first one ends with   *)
(* the job completed and its counters re-derived for the same file.        *)
C5_RerunSafe ==
    \A w \in Workers :
        Finished(w) /\ SecondAfterSuccess(w) =>
            /\ ~runs[w].raised
            /\ jobs[runs[w].job].status = "completed"
            /\ jobs[runs[w].job].processed_rows =
                   Len(ValidRows(content[runs[w].job]))

(* C6: an invocation that ends by raising leaves the job failed with the   *)
(* captured error text, has published a failed snapshot with that text     *)
(* and has emitted import.failed with it.                                  *)
C6_FailureRecorded ==
    \A w \in Workers :
        Finished(w) /\ runs[w].raised =>
            /\ jobs[runs[w].job].status = "failed"
            /\ jobs[runs[w].job].error_message = runs[w].e
            /\ \E i \in 1..Len(runs[w].sent) :
                   /\ runs[w].sent[i].status = "failed"
                   /\ runs[w].sent[i].error = runs[w].e
            /\ \E i \in 1..Len(runs[w].emitted) :
                   /\ runs[w].emitted[i].type = "import.failed"
                   /\ runs[w].emitted[i].error = runs[w].e

(* The store failed inside the second upsert_batch call of an import of    *)
(* three batches.                                                          *)
StoreFailedInSecondBatch(w) ==
    /\ runs[w].at \in {"count", "exec"}
    /\ runs[w].e = ErrStore
    /\ runs[w].total = 2 * BATCH_SIZE
    /\ Len(ValidRows(runs[w].csv)) > 2 * BATCH_SIZE

(* C7: when the store fails during batch 2 of 3, the run ends with the job *)
(* failed, processed_rows at batch 1's total, an error message and the     *)
(* staged file removed.                                                    *)
C7_OutageInSecondBatch ==
    \A w \in Workers :
        Finished(w) /\ StoreFailedInSecondBatch(w) =>
            /\ jobs[runs[w].job].status = "failed"
            /\ jobs[runs[w].job].processed_rows = BATCH_SIZE
            /\ jobs[runs[w].job].error_message # NoText
            /\ runs[w].job \notin staged

(* The invocation on worker w has persisted status processing and has not  *)
(* exited.                                                                 *)
Holding(w) ==
    /\ runs[w].pc \notin {"idle", "claim", "done"}
    /\ runs[w].at # "claim"

Holders(j) == {w \in Workers : Holding(w) /\ runs[w].job = j}

(* C8 as stated: at most one invocation holds processing for a job id,     *)
(* also when the task queue delivers an invocation more than once.         *)
C8_OneHolder == \A j \in JobIds : Cardinality(Holders(j)) <= 1

(* C8 amended: at most one invocation holds processing for a job id whose  *)
(* invocation the task queue has delivered once (the upload enqueues one   *)
(* invocation per fresh job id; the runner itself excludes nothing).       *)
C8_OneHolderOneDelivery ==
    \A j \in JobIds : redelivered[j] = 0 => Cardinality(Holders(j)) <= 1

(* Two invocations hold processing at once, for different jobs.            *)
C8_Witness ==
    \E v, w \in Workers :
        /\ Holding(v) /\ Holding(w)
        /\ runs[v].job # runs[w].job
        /\ redelivered[runs[v].job] = 0 /\ redelivered[runs[w].job] = 0

(* The import that finished last before the invocation on worker w started *)
(* was a successful import of an identical file under another job id.      *)
ReimportOfSameFile(w) ==
    /\ runs[w].seen >= 1
    /\ results[runs[w].seen].state = "SUCCESS"
    /\ results[runs[w].seen].job # runs[w].job
    /\ content[results[runs[w].seen].job] = content[runs[w].job]

(* C9: the second import of an identical file finishes with created_rows   *)
(* = 0 and updated_rows = the number of valid rows of the file.            *)
C9_ReimportUpdatesAll ==
    \A w \in Workers :
        Finished(w) /\ ~runs[w].raised /\ ReimportOfSameFile(w) =>
            /\ jobs[runs[w].job].created_rows = 0
            /\ jobs[runs[w].job].updated_rows =
                   Len(ValidRows(content[runs[w].job]))

(* The keys of a file's valid rows, and the last valid row of a key.       *)
KeyOf(row) == lower(strip(row.sku))

ValidIndexes(rows) == {i \in 1..Len(rows) : IsValidRow(rows[i])}

FileKeys(rows) == {KeyOf(rows[i]) : i \in ValidIndexes(rows)}

LastValidRow(rows, k) ==
    rows[SetMax({i \in ValidIndexes(rows) : KeyOf(rows[i]) = k})]

CatalogReflects(rows) ==
    \A k \in FileKeys(rows) :
        /\ Cardinality({p \in catalog : p.sku = k}) = 1
        /\ \A p \in catalog :
               p.sku = k =>
                   /\ p.name = strip(LastValidRow(rows, k).name)
                   /\ p.description =
                          AsDescription(LastValidRow(rows, k).description)

(* C10: after an import that completed with no other writer at work, each  *)
(* key of the file is stored once, with the name and description of the    *)
(* last valid row of that key.                                             *)
C10_LastRowWins ==
    \A w \in Workers :
        Finished(w) /\ ~runs[w].raised => CatalogReflects(content[runs[w].job])

(* A completed import of a file that repeats a key inside its first batch  *)
(* and again in its second.                                                *)
C10_Witness ==
    \E w \in Workers :
        /\ Finished(w) /\ ~runs[w].raised
        /\ content[runs[w].job] = <<RowA, RowA2, RowA>>

(* The import on worker w was the first to run, on a catalog that held     *)
(* nothing, and its file has exactly two valid rows, whose keys differ     *)
(* only in case or surrounding blanks.                                     *)
TwoSpellingsOfOneKey(w) ==
    /\ runs[w].seen = 0
    /\ \A p \in catalog : p.id # OldProduct.id
    /\ Len(ValidRows(content[runs[w].job])) = 2
    /\ ValidRows(content[runs[w].job])[1].sku #
           ValidRows(content[runs[w].job])[2].sku
    /\ Cardinality(FileKeys(content[runs[w].job])) = 1

(* C11: importing a key in one spelling and then in another is counted as  *)
(* one create and one update, and leaves one catalog record for the key.   *)
C11_CaseInsensitiveKeys ==
    \A w \in Workers :
        Finished(w) /\ ~runs[w].raised /\ TwoSpellingsOfOneKey(w) =>
            /\ jobs[runs[w].job].created_rows = 1
            /\ jobs[runs[w].job].updated_rows = 1
            /\ \A k \in FileKeys(content[runs[w].job]) :
                   Cardinality({p \in catalog : lower(p.sku) = k}) = 1

(* A row whose key or name is missing or empty once trimmed.               *)
EmptyAfterTrim(v) == ~Truthy(v) \/ strip(v) = <<>>

BlankRow(row) == EmptyAfterTrim(row.sku) \/ EmptyAfterTrim(row.name)

BlankRows(rows) == SelectSeq(rows, BlankRow)

Parsable(rows) == \A i \in 1..Len(rows) : rows[i].description # None

(* C12: a job over a file whose rows all have their fields completes with  *)
(* processed_rows = data rows minus the rows whose key or name is empty    *)
(* after trimming; such rows never reach the upsert engine.                *)
C12_BlankRowsSkipped ==
    \A w \in Workers :
        Finished(w) /\ Parsable(content[runs[w].job]) =>
            /\ ~runs[w].raised
            /\ jobs[runs[w].job].status = "completed"
            /\ jobs[runs[w].job].processed_rows =
                   Len(content[runs[w].job])
                       - Len(BlankRows(content[runs[w].job]))
            /\ \A p \in catalog : p.sku # <<>> /\ p.name # <<>>

(* The rows the validation of process_csv_content lets through, as the     *)
(* product data built from them, in file order.                            *)
Accepted(rows) ==
    [i \in 1..Len(ValidRows(rows)) |-> ProductData(ValidRows(rows)[i])]

CeilDiv(n, b) == (n + b - 1) \div b

RECURSIVE Concat(_)
Concat(ss) == IF ss = <<>> THEN <<>> ELSE Head(ss) \o Concat(Tail(ss))

BatchSizesRight(calls, n) ==
    \A i \in 1..Len(calls) :
        Len(calls[i]) =
            IF i < Len(calls) THEN BATCH_SIZE
            ELSE n - BATCH_SIZE * (Len(calls) - 1)

(* C13: a run that returns over N accepted rows has made ceil(N /          *)
(* BATCH_SIZE) upsert calls, in file order, each of BATCH_SIZE rows except *)
(* a last one of the rows left over (never an empty one), one checkpoint   *)
(* per call, and its final snapshot carries processed = N.                 *)
C13_BatchesAndCheckpoints ==
    \A w \in Workers :
        Finished(w) /\ ~runs[w].raised =>
            /\ Len(runs[w].calls) =
                   CeilDiv(Len(Accepted(runs[w].csv)), BATCH_SIZE)
            /\ BatchSizesRight(runs[w].calls, Len(Accepted(runs[w].csv)))
            /\ \A i \in 1..Len(runs[w].calls) : runs[w].calls[i] # <<>>
            /\ Concat(runs[w].calls) = Accepted(runs[w].csv)
            /\ runs[w].checkpoints = Len(runs[w].calls)
            /\ runs[w].sent # <<>>
            /\ runs[w].sent[Len(runs[w].sent)].status = "completed"
            /\ runs[w].sent[Len(runs[w].sent)].processed =
                   Len(Accepted(runs[w].csv))

(* A run of three upsert calls, the last one of a single row.              *)
C13_Witness ==
    \E w \in Workers :
        /\ Finished(w) /\ ~runs[w].raised
        /\ Len(runs[w].calls) = 3
        /\ Len(runs[w].calls[3]) = 1
        /\ runs[w].checkpoints = 3

(* The step publishes a snapshot of the given status from worker w.        *)
Publishes(w, st) ==
    /\ Len(runs'[w].sent) = Len(runs[w].sent) + 1
    /\ runs'[w].sent[Len(runs'[w].sent)].status = st

(* C14: whenever a snapshot with status completed is published, the job    *)
(* row already has status completed, and the snapshot carries processed =  *)
(* total.                                                                  *)
C14_CompletedBeforeSnapshot ==
    [][\A w \in Workers :
          Publishes(w, "completed") =>
              /\ jobs[runs[w].job].status = "completed"
              /\ runs'[w].sent[Len(runs'[w].sent)].processed =
                     runs'[w].sent[Len(runs'[w].sent)].total]_vars

(* C15: the snapshots a subscriber is sent carry non-decreasing processed  *)
(* values, for runs that complete and for runs that fail after committed   *)
(* batches.                                                                *)
C15_StreamNonDecreasing ==
    \A s \in StreamIds :
        \A i, k \in 1..Len(streams[s].out) :
            i < k => streams[s].out[i].processed <= streams[s].out[k].processed

LastOut(s) == streams[s].out[Len(streams[s].out)]

(* What a stream has written is what it received, in arrival order; a      *)
(* completed or failed snapshot is the last thing written and ends the     *)
(* stream; an ended stream holds no subscription.                          *)
RelaysInOrder(s) ==
    /\ Len(streams[s].out) <= Len(streams[s].got)
    /\ streams[s].out = SubSeq(streams[s].got, 1, Len(streams[s].out))
    /\ streams[s].pc = "listening" =>
           streams[s].got = streams[s].out \o streams[s].inbox
    /\ \A i \in 1..(Len(streams[s].out) - 1) :
           ~Terminal(streams[s].out[i].status)
    /\ streams[s].out # <<>> /\ Terminal(LastOut(s).status) =>
           streams[s].pc = "ended"
    /\ streams[s].pc = "ended" => ~streams[s].subscribed

EndsOnTerminal(s, causes) ==
    streams[s].pc = "ended" /\ streams[s].why \notin causes =>
        streams[s].out # <<>> /\ Terminal(LastOut(s).status)

ClosedForGood ==
    \A s \in StreamIds : streams[s].pc = "ended" => streams'[s] = streams[s]

UnknownStatusRead ==
    reply' # reply /\ ~JobExists(reply'.job) =>
        /\ reply'.code = 404
        /\ UNCHANGED <<jobs, catalog, streams>>

(* A stream request answered in this step, for a job that has no row.      *)
UnknownStreamRequest(s) ==
    streams[s].pc = "none" /\ streams'[s].pc # "none"
        /\ ~JobExists(streams'[s].job) =>
            /\ streams'[s] = Refused(NoStream, streams'[s].job, 404)
            /\ \A t \in StreamIds \ {s} : streams'[t] = streams[t]
            /\ UNCHANGED <<jobs, catalog>>

(* C17: a status read or a stream request for a job id without a row is    *)
(* answered 404, changes no job row, catalog row or subscription, and the  *)
(* refused request never subscribes.                                       *)
C17_UnknownJobNotFound ==
    [][/\ UnknownStatusRead
       /\ \A s \in StreamIds :
              /\ UnknownStreamRequest(s)
              /\ streams[s].pc = "refused" => streams'[s] = streams[s]]_vars

(* Both requests were answered 404 for a job id without a row.             *)
C17_Witness ==
    /\ reply.code = 404 /\ ~JobExists(reply.job)
    /\ \E s \in StreamIds :
           /\ streams[s].code = 404 /\ ~JobExists(streams[s].job)
           /\ ~streams[s].subscribed

(* The outcome of one import that runs alone on a store that answers, as   *)
(* a function of the file and of the catalog it starts from: the job row   *)
(* and the catalog after the last step.  st carries the position in the    *)
(* file, the running totals, the job row and the catalog.                  *)
RECURSIVE Outcome(_, _)
Outcome(rows, st) ==
    LET s == Scan(rows, st.pos, <<>>, st.total) IN
    IF s.kind = "error"
    THEN [job |-> FailedRow(st.job, ErrParse), catalog |-> st.catalog]
    ELSE IF s.kind = "end" /\ s.batch = <<>>
    THEN [job |-> CompletedRow(st.job), catalog |-> st.catalog]
    ELSE LET n == existing_count(st.catalog, s.batch)
             c == st.created + UpsertCreated(s.batch, n)
             u == st.updated + UpsertUpdated(s.batch, n)
             after ==
                 [pos |-> s.pos, total |-> s.total, created |-> c,
                  updated |-> u,
                  job |-> [st.job EXCEPT !.processed_rows = s.total,
                                         !.created_rows = c,
                                         !.updated_rows = u],
                  catalog |->
                      UpsertStatement(st.catalog, st.nid, s.batch, st.now),
                  nid |-> st.nid + Len(NewRows(st.catalog, s.batch)),
                  now |-> st.now + 1]
         IN IF s.kind = "full" THEN Outcome(rows, after)
            ELSE [job |-> CompletedRow(after.job), catalog |-> after.catalog]

(* The catalog the behaviour started from: the product stored earlier      *)
(* keeps its id.                                                           *)
CatalogAtStart ==
    IF \E p \in catalog : p.id = OldProduct.id THEN {OldProduct} ELSE {}

OutcomeOf(rows) ==
    Outcome(rows,
            [pos |-> 1, total |-> 0, created |-> 0, updated |-> 0,
             job |-> [NewJob("processing") EXCEPT
                         !.total_rows = count_csv_rows(rows)],
             catalog |-> CatalogAtStart, nid |-> OldProduct.id + 1,
             now |-> OldProduct.created_at + 1])

(* C18: whatever publishes the broker fails, a run raises only when the    *)
(* import itself fails, and it leaves the job row and the catalog that the *)
(* file alone determines.                                                  *)
C18_PublishNeverMatters ==
    \A w \in Workers :
        Finished(w) =>
            /\ jobs[runs[w].job] = OutcomeOf(content[runs[w].job]).job
            /\ catalog = OutcomeOf(content[runs[w].job]).catalog
            /\ runs[w].raised <=> jobs[runs[w].job].status = "failed"

(* A run of two upsert calls that returned having published nothing.       *)
C18_Witness ==
    \E w \in Workers :
        /\ Finished(w) /\ ~runs[w].raised
        /\ Len(runs[w].calls) = 2
        /\ runs[w].sent = <<>>
        /\ jobs[runs[w].job].status = "completed"

(* The steps of the runner that dispatch a lifecycle event from inside the *)
(* try block.                                                              *)
DispatchSteps == {"evt_started", "evt_completed"}

(* C19: a failure while dispatching import.started or import.completed is  *)
(* swallowed: no invocation enters its failure path from a dispatch step.  *)
C19_DispatchFailuresSwallowed ==
    \A w \in Workers : runs[w].at \notin DispatchSteps

(* The task result recorded for the invocation on worker w, when           *)
(* invocations run one at a time.                                          *)
ResultOf(w) == results[runs[w].seen + 1]

(* C20 as stated: after an invocation has returned or raised, the staged   *)
(* file no longer exists, and the task fails exactly when the import       *)
(* raised.                                                                 *)
C20_FileAlwaysGone ==
    \A w \in Workers :
        Finished(w) =>
            /\ runs[w].job \notin staged
            /\ ResultOf(w).state = "FAILURE" <=> runs[w].at # ""

(* C20 amended: after an invocation has returned or raised, the staged     *)
(* file is gone unless removing it failed, and a removal error changes     *)
(* nothing of the outcome: the task fails exactly when the import raised.  *)
C20_CleanupOnEveryExit ==
    \A w \in Workers :
        Finished(w) =>
            /\ runs[w].job \in staged => runs[w].cleanup_error
            /\ runs[w].raised <=> runs[w].at # ""
            /\ ResultOf(w).job = runs[w].job
            /\ ResultOf(w).state = "FAILURE" <=> runs[w].at # ""

(* An invocation that failed in its second batch, after which the file is  *)
(* gone.                                                                   *)
C20_Witness ==
    \E w \in Workers :
        /\ Finished(w) /\ runs[w].raised
        /\ runs[w].at \in {"count", "exec", "progress"}
        /\ runs[w].total = 2 * BATCH_SIZE
        /\ runs[w].job \notin staged

(* The step dispatches import.started from worker w.                       *)
EmitsStarted(w) ==
    /\ Len(runs'[w].emitted) = Len(runs[w].emitted) + 1
    /\ runs'[w].emitted[Len(runs'[w].emitted)].type = "import.started"

(* The invocation on worker w has upserted a batch or published a          *)
(* snapshot of its import.                                                 *)
HasWorked(w) ==
    \/ runs[w].calls # <<>>
    \/ runs[w].checkpoints > 0
    \/ \E i \in 1..Len(runs[w].sent) : runs[w].sent[i].status # "failed"

(* C21: an invocation dispatches import.started when status processing is  *)
(* persisted and before it has upserted a batch or published a snapshot;   *)
(* an invocation that has done either has dispatched import.started first. *)
C21_StartedAfterProcessing ==
    /\ [](\A w \in Workers :
              HasWorked(w) =>
                  /\ runs[w].emitted # <<>>
                  /\ runs[w].emitted[1].type = "import.started")
    /\ [][\A w \in Workers :
              EmitsStarted(w) =>
                  /\ jobs[runs[w].job].status = "processing"
                  /\ runs[w].emitted = <<>>
                  /\ runs[w].calls = <<>>
                  /\ runs[w].sent = <<>>
                  /\ runs[w].checkpoints = 0]_vars

(* An invocation that dispatched import.started, then upserted two batches *)
(* and published a snapshot.                                               *)
C21_Witness ==
    \E w \in Workers :
        /\ runs[w].emitted # <<>>
        /\ runs[w].emitted[1].type = "import.started"
        /\ Len(runs[w].calls) = 2
        /\ runs[w].sent # <<>>

(* C22: the job's processed_rows never exceeds the rows of the batches     *)
(* whose upsert statement the invocation has committed, and after a failed *)
(* upsert the job counters are those of the batches committed before it.   *)
C22_ProgressAfterCommit ==
    \A w \in Workers :
        runs[w].pc # "idle" =>
            /\ jobs[runs[w].job].processed_rows <= runs[w].committed
            /\ runs[w].at \in {"count", "exec"} =>
                   /\ jobs[runs[w].job].processed_rows = runs[w].committed
                   /\ jobs[runs[w].job].created_rows = runs[w].created
                   /\ jobs[runs[w].job].updated_rows = runs[w].updated

(* The statement of the second batch failed after the first batch was      *)
(* committed and checkpointed, and the invocation has ended.               *)
C22_Witness ==
    \E w \in Workers :
        /\ Finished(w)
        /\ runs[w].at = "exec"
        /\ Len(runs[w].calls) = 2
        /\ runs[w].committed = BATCH_SIZE
        /\ jobs[runs[w].job].processed_rows = BATCH_SIZE

(* C23: no two catalog records have keys that are equal when compared      *)
(* case-insensitively, whatever creates, updates and imports have run.     *)
C23_KeysUniqueIgnoringCase ==
    \A p, q \in catalog : p # q => p.id # q.id /\ lower(p.sku) # lower(q.sku)

(* A create and an update were refused by the store's constraints, an      *)
(* import has completed, and the catalog holds two records.                *)
C23_Witness ==
    /\ \E q \in ReqIds : requests[q].op = "create" /\ requests[q].code = 500
    /\ \E q \in ReqIds : requests[q].op = "update" /\ requests[q].code = 500
    /\ \E w \in Workers : Finished(w) /\ ~runs[w].raised
    /\ Cardinality(catalog) = 2

(* The step answers a create request whose SKU is, up to letter case, the  *)
(* SKU of a record of the catalog.                                         *)
CreateOfDuplicate(q) ==
    /\ requests[q].pc = "none"
    /\ requests'[q].op = "create"
    /\ \E p \in catalog : lower(p.sku) = lower(requests'[q].sku)

(* C24: a create request whose SKU equals an existing record's SKU up to   *)
(* letter case is answered 400 at once, with the catalog unchanged, no     *)
(* product returned and no event dispatched, then and afterwards.          *)
C24_DuplicateCreateRejected ==
    [][\A q \in ReqIds :
          /\ CreateOfDuplicate(q) =>
                 /\ requests'[q].code = 400
                 /\ requests'[q].pc = "done"
                 /\ requests'[q].body = NoProduct
                 /\ requests'[q].emitted = <<>>
                 /\ UNCHANGED <<catalog, nextId>>
          /\ requests[q].pc = "done" => requests'[q] = requests[q]]_vars

(* A create of A was answered 400 because a lower-case a was stored.       *)
C24_Witness ==
    \E q \in ReqIds :
        /\ requests[q].op = "create" /\ requests[q].code = 400
        /\ requests[q].sku = <<"A">>
        /\ \E p \in catalog : p.sku = <<"a">>

(* C25: every key of the catalog is in lower case, and a product created   *)
(* through the create endpoint is returned with a lower-case key that is   *)
(* the request's SKU, ignoring case and surrounding blanks.                *)
C25_KeysLowerCase ==
    /\ \A p \in catalog : p.sku = lower(p.sku)
    /\ \A q \in ReqIds :
           requests[q].code \in {200, 201} =>
               /\ requests[q].body.sku = lower(requests[q].body.sku)
               /\ \E p \in catalog : p.id = requests[q].body.id
               /\ requests[q].op = "create" =>
                      lower(strip(requests[q].body.sku)) =
                          lower(strip(requests[q].sku))

(* An upper-case SKU was created, another record was given an upper-case   *)
(* SKU by an update, and an import has written its keys.                   *)
C25_Witness ==
    /\ \E q \in ReqIds :
           /\ requests[q].op = "create" /\ requests[q].code = 201
           /\ requests[q].sku # lower(requests[q].sku)
    /\ \E q \in ReqIds :
           /\ requests[q].op = "update" /\ requests[q].code = 200
           /\ requests[q].sku # None
           /\ requests[q].body.sku # requests[q].loaded.sku
    /\ \E w \in Workers : runs[w].committed > 0

(* C26: when an upload whose job row was created is answered with an       *)
(* error, no job row of that id and no staged file of that id remain; a    *)
(* job whose import raised keeps its row, with error_message populated.    *)
C26_FailedHandoffLeavesNothing ==
    /\ upload.pc = "done" /\ upload.code = 500 /\ upload.job # 0 =>
           ~JobExists(upload.job) /\ upload.job \notin staged
    /\ \A w \in Workers :
           Finished(w) /\ runs[w].raised =>
               /\ JobExists(runs[w].job)
               /\ jobs[runs[w].job].error_message # NoText

(* The step is taken by an invocation for job j.                           *)
StepOfRunnerFor(j) ==
    \E w \in Workers : Active(w) /\ runs[w].job = j /\ runs'[w] # runs[w]

(* C27: the row of a job is written only by steps of invocations for that  *)
(* job, and a subscription to a job's topic receives snapshots only from   *)
(* steps of invocations for that job, however invocations for distinct     *)
(* jobs interleave.                                                        *)
C27_JobsShareNothing ==
    [][\A j \in JobIds :
          /\ JobExists(j) /\ jobs'[j] # jobs[j] => StepOfRunnerFor(j)
          /\ \A s \in StreamIds :
                 streams[s].job = j /\ streams'[s].got # streams[s].got =>
                     StepOfRunnerFor(j)]_vars

(* Two invocations for distinct jobs are at work, both jobs have a         *)
(* checkpoint, and a subscriber of one of them has received a snapshot.    *)
C27_Witness ==
    /\ \E v, w \in Workers :
           /\ Active(v) /\ Active(w) /\ runs[v].job # runs[w].job
           /\ jobs[runs[v].job].processed_rows > 0
           /\ jobs[runs[w].job].processed_rows > 0
    /\ \E s \in StreamIds : streams[s].got # <<>>

(* The step is the statement of upsert_batch on worker w, committed.       *)
UpsertCommits(w) == runs[w].pc = "exec" /\ runs'[w].pc = "progress"

(* C28: the upsert leaves every stored record in place with its key, id,   *)
(* active flag and creation timestamp; a record whose key is in the batch  *)
(* takes the name and description of the batch's row and a new update      *)
(* timestamp, and every other record is unchanged.                         *)
C28_UpsertFrame ==
    [][\A w \in Workers :
          UpsertCommits(w) =>
              \A p \in catalog :
                  \E q \in catalog' :
                      /\ q.id = p.id /\ q.sku = p.sku
                      /\ q.active = p.active
                      /\ q.created_at = p.created_at
                      /\ IF \E i \in 1..Len(runs[w].batch) :
                                runs[w].batch[i].sku = p.sku
                         THEN /\ \E i \in 1..Len(runs[w].batch) :
                                     /\ runs[w].batch[i].sku = p.sku
                                     /\ q.name = runs[w].batch[i].name
                                     /\ q.description =
                                            runs[w].batch[i].description
                              /\ q.updated_at = now
                         ELSE q = p]_vars

(* The record stored before the import was updated by it and is still      *)
(* inactive, next to a record the import created.                          *)
C28_Witness ==
    /\ \E p \in catalog :
           /\ p.id = OldProduct.id /\ p.sku = OldProduct.sku
           /\ p.name # OldProduct.name
           /\ ~p.active
           /\ p.created_at = OldProduct.created_at
           /\ p.updated_at > OldProduct.updated_at
    /\ \E p \in catalog : p.id # OldProduct.id /\ p.updated_at = p.created_at

(* The keys of the batch on worker w, and those of them stored already.    *)
KeysOfBatch(w) == {runs[w].batch[i].sku : i \in 1..Len(runs[w].batch)}

KeysStored(w) == {k \in KeysOfBatch(w) : \E p \in catalog : p.sku = k}

(* C29: with no other writer at work, an upsert_batch call adds to updated *)
(* the number of its distinct keys stored before the statement and to      *)
(* created the number of records the statement inserted; neither is        *)
(* negative and together they are the number of distinct keys.             *)
C29_UpsertCounts ==
    [][\A w \in Workers :
          UpsertCommits(w) =>
              /\ runs'[w].updated - runs[w].updated =
                     Cardinality(KeysStored(w))
              /\ runs'[w].created - runs[w].created =
                     Cardinality(catalog') - Cardinality(catalog)
              /\ runs'[w].updated >= runs[w].updated
              /\ runs'[w].created >= runs[w].created
              /\ (runs'[w].created - runs[w].created)
                     + (runs'[w].updated - runs[w].updated) =
                     Cardinality(KeysOfBatch(w))]_vars

(* A call whose batch repeated a stored key counted one update, and a call *)
(* for a new key one create.                                               *)
C29_Witness ==
    \E w \in Workers :
        /\ Len(runs[w].calls) = 2
        /\ Cardinality(BatchKeys(runs[w].calls[1])) = 1
        /\ runs[w].committed = BATCH_SIZE + 1
        /\ runs[w].updated = 1 /\ runs[w].created = 1

(* C30: an invocation that has upserted a batch or published a snapshot of *)
(* its import has persisted total_rows before, and total_rows is the       *)
(* number of data rows of the file, valid or not.                          *)
C30_TotalRowsFirst ==
    /\ [](\A w \in Workers :
              HasWorked(w) =>
                  jobs[runs[w].job].total_rows = Len(content[runs[w].job]))
    /\ [][\A j \in JobIds :
              jobs'[j].total_rows # jobs[j].total_rows =>
                  \E w \in Workers :
                      /\ runs[w].job = j /\ runs'[w] # runs[w]
                      /\ ~HasWorked(w)
                      /\ jobs'[j].total_rows = Len(content[j])]_vars

(* An import of a file of three data rows, one of them skipped, has        *)
(* upserted its batch under total_rows = 3.                                *)
C30_Witness ==
    \E w \in Workers :
        /\ Finished(w) /\ ~runs[w].raised
        /\ runs[w].calls # <<>>
        /\ runs[w].total = 2
        /\ jobs[runs[w].job].total_rows = 3

----------------------------------------------------------------------------
(* The posts one trigger_webhooks call added to a log.                     *)
NewPosts(old, new) == SubSeq(new.posts, Len(old.posts) + 1, Len(new.posts))

(* The posts of one emission of an event of the given type: each goes to   *)
(* a webhook that is stored, enabled and registered for that type, and no  *)
(* webhook is posted to twice.                                             *)
PostsOf(old, new, type) ==
    LET np == NewPosts(old, new) IN
    /\ SubSeq(new.posts, 1, Len(old.posts)) = old.posts
    /\ \A i \in 1..Len(np) :
           /\ webhooks[np[i].hook].state = "stored"
           /\ webhooks[np[i].hook].enabled
           /\ webhooks[np[i].hook].event_type = type
           /\ np[i].url = webhooks[np[i].hook].url
           /\ np[i].payload.type = type
           /\ np[i].emission = Len(new.emitted)
    /\ \A i, k \in 1..Len(np) : np[i].hook = np[k].hook => i = k

Emits(old, new) == Len(new.emitted) = Len(old.emitted) + 1

(* A step that is no emission posts nothing: a log stays as it is, or is   *)
(* that of a fresh invocation.                                             *)
NoPosts(old, new) == new.posts = old.posts \/ new.posts = <<>>

(* C31: each emission of an event posts the payload at most once to each   *)
(* webhook that is enabled and registered for exactly that event type,     *)
(* never to a disabled webhook or to one registered for another type, and  *)
(* a post that failed is not made again.                                   *)
C31_PostsOncePerMatchingWebhook ==
    [][/\ \A w \in Workers :
              IF Emits(runs[w], runs'[w])
              THEN /\ PostsOf(runs[w], runs'[w],
                              runs'[w].emitted[Len(runs'[w].emitted)].type)
                   /\ \A i \in 1..Len(NewPosts(runs[w], runs'[w])) :
                          NewPosts(runs[w], runs'[w])[i].payload =
                              runs'[w].emitted[Len(runs'[w].emitted)]
              ELSE NoPosts(runs[w], runs'[w])
       /\ \A q \in ReqIds :
              IF Emits(requests[q], requests'[q])
              THEN PostsOf(requests[q], requests'[q],
                           requests'[q].emitted[1])
              ELSE NoPosts(requests[q], requests'[q])]_vars

(* An invocation has ended after two emissions that each posted, one post  *)
(* failed, and a stored webhook that is disabled got no post.              *)
C31_Witness ==
    \E w \in Workers :
        /\ runs[w].pc = "done"
        /\ \E i, k \in 1..Len(runs[w].posts) :
               /\ runs[w].posts[i].emission = 1
               /\ runs[w].posts[k].emission = 2
               /\ ~runs[w].posts[i].ok
        /\ \E h \in HookIds :
               /\ webhooks[h].state = "stored" /\ ~webhooks[h].enabled
               /\ \A i \in 1..Len(runs[w].posts) : runs[w].posts[i].hook # h

(* The step on which an invocation returns or raises.                      *)
Exits(w) == runs[w].pc # "done" /\ runs'[w].pc = "done"

(* C32: whenever an invocation for an existing job returns or raises, the  *)
(* job's status is completed or failed and not processing, also when the   *)
(* store failed during the import.                                         *)
C32_ExitsInTerminalStatus ==
    [][\A w \in Workers :
          Exits(w) /\ JobExists(runs[w].job) =>
              Terminal(jobs'[runs[w].job].status)]_vars

(* C33: an invocation publishes at most one terminal snapshot: none with   *)
(* status failed after one with status completed, and every snapshot       *)
(* published before the terminal one has status processing.                *)
C33_OneTerminalSnapshot ==
    \A w \in Workers :
        \A i \in 1..Len(runs[w].sent) :
            /\ i < Len(runs[w].sent) => runs[w].sent[i].status = "processing"
            /\ \A k \in 1..Len(runs[w].sent) :
                   runs[w].sent[i].status = "completed" /\ i < k =>
                       runs[w].sent[k].status # "failed"

(* The step on which an invocation publishes a snapshot, and the snapshot. *)
PublishesNow(w) == Len(runs'[w].sent) = Len(runs[w].sent) + 1

LastSent(w) == runs'[w].sent[Len(runs'[w].sent)]

AgreesWithRecord(snap, job) ==
    /\ snap.processed = job.processed_rows
    /\ snap.created = job.created_rows
    /\ snap.updated = job.updated_rows
    /\ snap.total = job.total_rows

(* C34: every snapshot published for a job agrees with the job record at   *)
(* the moment of publication: processed, created, updated and total equal  *)
(* processed_rows, created_rows, updated_rows and total_rows, whatever the *)
(* snapshot's status.                                                      *)
C34_SnapshotAgreesWithRecord ==
    [][\A w \in Workers :
          PublishesNow(w) =>
              AgreesWithRecord(LastSent(w), jobs[runs'[w].job])]_vars

(* The step on which an invocation emits an event, and the event.          *)
EmitsNow(w) == Emits(runs[w], runs'[w])

LastEmitted(w) == runs'[w].emitted[Len(runs'[w].emitted)]

HasEmitted(run, type) ==
    \E i \in 1..Len(run.emitted) : run.emitted[i].type = type

(* C35: import.completed is emitted only when the job record has status    *)
(* completed at that moment, with the record's total_rows, created_rows    *)
(* and updated_rows as payload; an invocation that emitted import.completed *)
(* never emits import.failed afterwards; and an invocation that emitted    *)
(* import.failed exits by raising.                                         *)
C35_CompletedEventMatchesRecord ==
    /\ [](\A w \in Workers :
             Finished(w) /\ HasEmitted(runs[w], "import.failed") =>
                 /\ runs[w].raised
                 /\ TaskResult(runs[w]).state = "FAILURE")
    /\ [][\A w \in Workers :
             EmitsNow(w) =>
                 /\ LastEmitted(w).type = "import.completed" =>
                        /\ jobs[runs[w].job].status = "completed"
                        /\ LastEmitted(w).total_rows =
                               jobs[runs[w].job].total_rows
                        /\ LastEmitted(w).created =
                               jobs[runs[w].job].created_rows
                        /\ LastEmitted(w).updated =
                               jobs[runs[w].job].updated_rows
                 /\ LastEmitted(w).type = "import.failed" =>
                        ~HasEmitted(runs[w], "import.completed")]_vars

====
